---- MODULE Spec2Model ----
(***************************************************************************)
(* State-machine model of the ShipsGo client (scripts/shipsgo-client.ts):  *)
(* the credit-aware create flow, the retry wrapper, the cache-backed read  *)
(* operations and the rate-limit record.                                   *)
(*                                                                         *)
(* Conventions.  Strings that the code transforms (reference numbers,      *)
(* upstream status values) are sequences of one-character strings.  A JS   *)
(* value that may be undefined is a number with -1 for undefined, or a     *)
(* string/sequence with the empty value for undefined; null is NullData.   *)
(* Instants are milliseconds.                                              *)
(***************************************************************************)
EXTENDS Integers, Sequences, FiniteSets, TLC

\* ------------------------------------------------------------------------
\* Bounds of the model
\* ------------------------------------------------------------------------
\* number of public operations invoked in one behaviour
MaxOps == 2
\* number of createShipment invocations that reach the remote
MaxCreates == 1
\* longest listing the remote answers with
MaxList == 2
\* latest creation instant of a shipment handed to a private function
MaxCreatedAt == 3
\* longest listing handed to the best-match selection
MaxCandidates == 3
\* most calls a stored rate-limit record holds
MaxLocalCalls == 101
\* longest look-ahead asked of getArrivingSoon, in days
MaxDays == 14
\* responses handled by the client processes sharing one rate-limit file
MaxResponses == 3
\* the clock advances in steps of ClockStep ms, MaxTicks times at most
ClockStep == 20000
MaxTicks == 4
\* the cache clock advances AdvanceMinutes at a time, MaxAdvances times at most
AdvanceMinutes == 14
MaxAdvances == 3
\* a timer fires at the first multiple of this grain at or after its delay
TimerGrain == 60000
\* the instant the first operation starts at
StartTime == 100000

\* ------------------------------------------------------------------------
\* Program constants
\* ------------------------------------------------------------------------
MaxRetries == 3
BaseDelay == 1000
JitterMax == 500
RateWindow == 60000
DefaultLimit == 100
ListLimit == 100
MsPerDay == 86400000
WarnBelow == 20
TTL_FIFTEEN_MINUTES == 15
TTL_THIRTY_MINUTES == 30
TTL_HOUR == 60
TTL_DAY == 1440

\* ------------------------------------------------------------------------
\* Strings
\* ------------------------------------------------------------------------
LowerLetters == <<"a","b","c","d","e","f","g","h","i","j","k","l","m",
                  "n","o","p","q","r","s","t","u","v","w","x","y","z">>
UpperLetters == <<"A","B","C","D","E","F","G","H","I","J","K","L","M",
                  "N","O","P","Q","R","S","T","U","V","W","X","Y","Z">>

LowerSet == {LowerLetters[i] : i \in 1..26}
UpperSet == {UpperLetters[i] : i \in 1..26}

\* the upper-case letter of each lower-case letter
UpperOf ==
  [c \in LowerSet |-> UpperLetters[CHOOSE i \in 1..26 : LowerLetters[i] = c]]

UpperChar(c) == IF c \in LowerSet THEN UpperOf[c] ELSE c

\* String.prototype.toUpperCase
ToUpperCase(s) == [i \in 1..Len(s) |-> UpperChar(s[i])]

\* ------------------------------------------------------------------------
\* Raw payloads and the mapper
\* ------------------------------------------------------------------------
NullData == [null |-> TRUE]
NoCoords == [lat |-> 0, lng |-> 0]

\* status.toUpperCase().replace(/[^A-Z_]/g, "_")
NormalizeStatus(s) ==
  [i \in 1..Len(s) |->
     LET c == UpperChar(s[i])
     IN IF c = "_" \/ c \in UpperSet THEN c ELSE "_"]

\* statusMap: normalized upstream status -> ShipmentStatus
StatusTable ==
  <<"P","E","N","D","I","N","G">> :> "PENDING"
  @@ <<"I","N","P","R","O","G","R","E","S","S">> :> "EN_ROUTE"
  @@ <<"I","N","_","P","R","O","G","R","E","S","S">> :> "EN_ROUTE"
  @@ <<"I","N","_","T","R","A","N","S","I","T">> :> "EN_ROUTE"
  @@ <<"E","N","_","R","O","U","T","E">> :> "EN_ROUTE"
  @@ <<"D","I","S","C","H","A","R","G","E","D">> :> "ARRIVED"
  @@ <<"A","R","R","I","V","E","D">> :> "ARRIVED"
  @@ <<"D","E","L","I","V","E","R","E","D">> :> "DELIVERED"
  @@ <<"D","I","S","C","A","R","D","E","D">> :> "DISCARDED"
  @@ <<"N","O","T","_","F","O","U","N","D">> :> "NOT_FOUND"

\* seeded fault: the upstream value is looked up as it comes
MapStatusExact(status) ==
  IF status \in DOMAIN StatusTable THEN StatusTable[status] ELSE "PENDING"

MapStatus(status) ==
  IF status = <<>> THEN "PENDING"
  ELSE LET n == NormalizeStatus(status)
       IN IF n \in DOMAIN StatusTable THEN StatusTable[n] ELSE "PENDING"

\* a || b on strings (empty is falsy)
OrStr(a, b) == IF a = "" THEN b ELSE a
\* a || b on sequences standing for strings
OrSeq(a, b) == IF a = <<>> THEN b ELSE a
\* a || b on numbers (0 and undefined are falsy)
OrNum(a, b) == IF a <= 0 THEN b ELSE a

\* The fields of a raw payload that the create and read flows depend on.
\* createdAt/created_at and discardedAt/discarded_at are instants, 0 = absent.
MapToShipment(raw, t) ==
  [ id           |-> OrStr(raw.id, OrStr(raw.requestId, "")),
    status       |-> MapStatus(OrSeq(raw.status, raw.shippingStatus)),
    created_at   |-> OrNum(raw.createdAt, OrNum(raw.created_at, t)),
    discarded_at |-> OrNum(raw.discardedAt, OrNum(raw.discarded_at, 0)),
    coordinates  |-> raw.coordinates ]

MapAll(raws, t) == [i \in 1..Len(raws) |-> MapToShipment(raws[i], t)]

\* ------------------------------------------------------------------------
\* Best-match selection
\* ------------------------------------------------------------------------
StatusOrder(st) ==
  CASE st = "EN_ROUTE"  -> 0
    [] st = "PENDING"   -> 1
    [] st = "ARRIVED"   -> 2
    [] st = "DELIVERED" -> 3
    [] st = "DISCARDED" -> 4
    [] OTHER            -> 5

\* seeded fault: oldest first among equal statuses
CompareOldestFirst(a, b) ==
  LET statusDiff == StatusOrder(a.status) - StatusOrder(b.status)
  IN IF statusDiff # 0 THEN statusDiff ELSE a.created_at - b.created_at

\* the comparator handed to Array.prototype.sort
CompareShipments(a, b) ==
  LET statusDiff == StatusOrder(a.status) - StatusOrder(b.status)
  IN IF statusDiff # 0 THEN statusDiff ELSE b.created_at - a.created_at

RECURSIVE InsertSorted(_, _)
InsertSorted(x, sorted) ==
  IF sorted = <<>> THEN <<x>>
  ELSE IF CompareShipments(Head(sorted), x) <= 0
       THEN <<Head(sorted)>> \o InsertSorted(x, Tail(sorted))
       ELSE <<x>> \o sorted

\* Array.prototype.sort is stable: equal elements keep their order
RECURSIVE StableSort(_)
StableSort(s) ==
  IF s = <<>> THEN <<>>
  ELSE InsertSorted(s[Len(s)], StableSort(SubSeq(s, 1, Len(s) - 1)))

NotDiscarded(s) == s.discarded_at = 0

SelectBestMatch(shipments) ==
  IF Len(shipments) = 0 THEN NullData
  ELSE IF Len(shipments) = 1 THEN shipments[1]
  ELSE LET sorted == StableSort(SelectSeq(shipments, NotDiscarded))
       IN IF sorted # <<>> THEN sorted[1] ELSE shipments[1]

\* ------------------------------------------------------------------------
\* Cache store (PluginCache) and cache keys
\* ------------------------------------------------------------------------
CreateCacheKey(op, param) == <<op, param>>

CacheGet(c, key, disabled) ==
  IF ~disabled /\ key \in DOMAIN c
  THEN [hit |-> TRUE, data |-> c[key].data]
  ELSE [hit |-> FALSE, data |-> NullData]

CacheSet(c, key, data, ttl) ==
  [k \in DOMAIN c \cup {key} |->
     IF k = key THEN [data |-> data, ttl |-> ttl] ELSE c[k]]

CacheInvalidate(c, key) == [k \in DOMAIN c \ {key} |-> c[k]]

\* seeded fault: one TTL for every status
GetCacheTTLFlat(shipment) == TTL_HOUR * 2

GetCacheTTL(shipment) ==
  CASE shipment.status \in {"PENDING", "EN_ROUTE"}     -> TTL_HOUR * 2
    [] shipment.status = "ARRIVED"                     -> TTL_HOUR * 4
    [] shipment.status \in {"DELIVERED", "DISCARDED"}  -> TTL_DAY
    [] OTHER                                           -> TTL_HOUR * 2

KindOp(kind) ==
  CASE kind = "bl"        -> "shipment:bl"
    [] kind = "container" -> "shipment:container"
    [] kind = "booking"   -> "shipment:booking"
    [] OTHER              -> "shipment:unknown"

\* data is a create request holding one reference: [kind, ref]
BuildCacheKey(data) == CreateCacheKey(KindOp(data.kind), data.ref)

\* the key trackByBL / trackByContainer / trackByBooking use
TrackCacheKey(kind, ref) == CreateCacheKey(KindOp(kind), ToUpperCase(ref))

\* ------------------------------------------------------------------------
\* Rate-limit record
\* ------------------------------------------------------------------------
\* The reset header and the reset instant take values beyond 2^31: such a
\* number is held as hi * 10^6 + lo with 0 <= lo < 10^6; NoNum is undefined.
Num(hi, lo) == [hi |-> hi, lo |-> lo]
NoNum == Num(-1, -1)
Carry(hi, lo) == Num(hi + lo \div 1000000, lo % 1000000)
NumOf(n) == Carry(0, n)
NumPlus(a, b) == Carry(a.hi + b.hi, a.lo + b.lo)
NumTimes1000(a) == Carry(a.hi * 1000, a.lo * 1000)
NumAbove(a, b) == a.hi > b.hi \/ (a.hi = b.hi /\ a.lo > b.lo)

\* 1e10
EpochThreshold == Num(10000, 0)

EmptyRateLimit ==
  [ serverRemaining |-> -1, serverLimit |-> -1, serverResetAt |-> NoNum,
    lastServerUpdate |-> -1, localCalls |-> <<>> ]

\* what JSON.parse makes of a file holding {}: no field is defined, and there
\* is no localCalls array
IncompleteRecord ==
  [ serverRemaining |-> -1, serverLimit |-> -1, serverResetAt |-> NoNum,
    lastServerUpdate |-> -1 ]

HasLocalCalls(data) == "localCalls" \in DOMAIN data

\* headers: remaining, limit, retryAfter, -1 = header absent; reset, NoNum =
\* header absent
NoHeaders == [remaining |-> -1, limit |-> -1, reset |-> NoNum, retryAfter |-> -1]

InWindow(t, nowT) == t > nowT - RateWindow

\* resetVal > 1e10
ExceedsEpochThreshold(v) == NumAbove(v, EpochThreshold)

\* X-RateLimit-Reset || Retry-After
ResetHeader(h) ==
  IF h.reset # NoNum THEN h.reset
  ELSE IF h.retryAfter # -1 THEN NumOf(h.retryAfter) ELSE NoNum

\* seeded fault: the call log is never pruned
UpdateRateLimitKeepAll(data, h, t) ==
  [ serverRemaining  |-> IF h.remaining # -1 THEN h.remaining
                            ELSE data.serverRemaining,
    serverLimit      |-> IF h.limit # -1 THEN h.limit ELSE data.serverLimit,
    serverResetAt    |-> data.serverResetAt,
    lastServerUpdate |-> t,
    localCalls       |-> Append(data.localCalls, t) ]

\* the update with the call log started afresh
UpdateRateLimitOverwrite(data, h, t) ==
  [UpdateRateLimitKeepAll(data, h, t) EXCEPT !.localCalls = <<t>>]

UpdateRateLimitFromResponse(data, h, t) ==
  LET reset == ResetHeader(h)
  IN [ serverRemaining  |-> IF h.remaining # -1 THEN h.remaining
                            ELSE data.serverRemaining,
       serverLimit      |-> IF h.limit # -1 THEN h.limit ELSE data.serverLimit,
       serverResetAt    |-> IF reset # NoNum
                            THEN (IF ExceedsEpochThreshold(reset) THEN reset
                                  ELSE NumPlus(NumOf(t), NumTimes1000(reset)))
                            ELSE data.serverResetAt,
       lastServerUpdate |-> t,
       localCalls       |-> SelectSeq(Append(data.localCalls, t),
                                      LAMBDA x : InWindow(x, t)) ]

Max(a, b) == IF a >= b THEN a ELSE b

\* new Date(serverResetAt) when serverResetAt is set
ResetDate(data) ==
  IF data.serverResetAt \in {NoNum, NumOf(0)} THEN NoNum ELSE data.serverResetAt

ServerStatus(data) ==
  [ remaining      |-> data.serverRemaining,
    limit          |-> IF data.serverLimit # -1 THEN data.serverLimit ELSE DefaultLimit,
    resetAt        |-> ResetDate(data),
    localCallCount |-> Len(data.localCalls),
    warning        |-> IF data.serverRemaining < WarnBelow
                       THEN "Approaching rate limit" ELSE "" ]

LocalStatus(localRemaining, data) ==
  [ remaining      |-> localRemaining,
    limit          |-> DefaultLimit,
    resetAt        |-> NoNum,
    localCallCount |-> Len(data.localCalls),
    warning        |-> IF localRemaining < WarnBelow
                       THEN "Approaching rate limit (estimated)" ELSE "" ]

HasRecentServerData(data, t) ==
  /\ data.lastServerUpdate \notin {-1, 0}
  /\ t - data.lastServerUpdate < RateWindow

\* seeded fault: the local estimate is not floored at 0
RateLimitStatusNoFloor(data, t) ==
  IF HasRecentServerData(data, t) /\ data.serverRemaining # -1
  THEN ServerStatus(data)
  ELSE LocalStatus(DefaultLimit - Len(data.localCalls), data)

\* what getRateLimitStatus returns at time t for the stored record data
RateLimitStatus(data, t) ==
  IF HasRecentServerData(data, t) /\ data.serverRemaining # -1
  THEN ServerStatus(data)
  ELSE LocalStatus(Max(0, DefaultLimit - Len(data.localCalls)), data)

\* ------------------------------------------------------------------------
\* Errors, request outcomes and the retry wrapper
\* ------------------------------------------------------------------------
ApiError(status) ==
  [name |-> "ApiError", status |-> status, retryAfter |-> -1, message |-> "api"]
RateLimitError(retryAfter) ==
  [name |-> "RateLimitError", status |-> -1, retryAfter |-> retryAfter,
   message |-> "Rate limited"]
InsufficientCreditsError ==
  [name |-> "InsufficientCreditsError", status |-> -1, retryAfter |-> -1,
   message |-> "Insufficient credits"]
PlainError(msg) ==
  [name |-> "Error", status |-> -1, retryAfter |-> -1, message |-> msg]
NoError == [name |-> "none", status |-> -1, retryAfter |-> -1, message |-> ""]

TimeoutMessage == "ShipsGo API request timed out after 30s"
NetworkMessage == "fetch failed"
ConflictMessage == "409 returned but shipment not found"

\* What the remote does with one call: no response at all (the transport
\* fails or the 30 s timer aborts), or a response with status, headers, body.
NoResponse(why) == [responded |-> FALSE, why |-> why, status |-> -1,
                    headers |-> NoHeaders, body |-> <<>>]
Response(status, h, body) == [responded |-> TRUE, why |-> "", status |-> status,
                              headers |-> h, body |-> body]

ResponseOk(status) == status >= 200 /\ status <= 299

\* request(): the error it throws for an exchange, NoError if it returns
RequestError(x) ==
  IF ~x.responded
  THEN (IF x.why = "timeout" THEN PlainError(TimeoutMessage)
        ELSE PlainError(NetworkMessage))
  ELSE IF x.status = 429 THEN RateLimitError(x.headers.retryAfter)
  ELSE IF x.status = 402 THEN InsufficientCreditsError
  ELSE NoError

\* request(): the rate-limit record after an exchange
RequestRateLimit(data, x, t) ==
  IF x.responded THEN UpdateRateLimitFromResponse(data, x.headers, t) ELSE data

\* fetchWithRetry: "Don't retry client errors (4xx except 429)"
IsClientError(e) ==
  e.name = "ApiError" /\ e.status >= 400 /\ e.status < 500 /\ e.status # 429

\* fetchWithRetry: the delay before the next attempt
RetryDelay(e, attempt, jitter) ==
  IF e.name = "RateLimitError" /\ e.retryAfter > 0
  THEN e.retryAfter * 1000
  ELSE BaseDelay * (2 ^ attempt) + jitter

\* ------------------------------------------------------------------------
\* Environment: what the remote can answer
\* ------------------------------------------------------------------------
\* request_id is a key the mapper does not read.
\* tokensMap is tokens.map, "" when the payload carries no token; shipment is
\* the object under the key shipment, NullData when the payload has none
RawShipment(id, status, createdAt, discarded_at) ==
  [ id |-> id, requestId |-> "", request_id |-> "", status |-> status,
    shippingStatus |-> <<>>,
    createdAt |-> createdAt, created_at |-> 0,
    discardedAt |-> 0, discarded_at |-> discarded_at,
    coordinates |-> NoCoords, tokensMap |-> "", shipment |-> NullData ]

RawActive    == RawShipment("1", <<"i","n","p","r","o","g","r","e","s","s">>, 1, 0)
RawPending   == RawShipment("2", <<"P","E","N","D","I","N","G">>, 2, 0)
RawDiscarded == RawShipment("3", <<"D","I","S","C","A","R","D","E","D">>, 3, 3)
\* a payload without id and requestId
RawNoId      == RawShipment("", <<>>, 4, 0)

\* a payload with a map token and a vessel position
RawShared    == [RawActive EXCEPT !.tokensMap = "tok",
                                  !.coordinates = [lat |-> 5, lng |-> 7]]

\* the token nested under shipment, none at the top level
RawNested    == [RawActive EXCEPT !.shipment = [tokensMap |-> "nested"]]
\* an object under shipment without token, and a token at the top level
RawMixed     == [RawShared EXCEPT !.shipment = [tokensMap |-> ""]]

CreateBodies == {RawActive, RawDiscarded, RawNoId}
IdBodies     == {RawActive, RawDiscarded, RawShared}
ListedRaws   == {RawActive, RawPending, RawDiscarded}

RECURSIVE SeqsUpTo(_, _)
SeqsUpTo(S, n) ==
  IF n = 0 THEN {<<>>}
  ELSE LET shorter == SeqsUpTo(S, n - 1)
       IN shorter \cup {Append(s, x) : s \in shorter, x \in S}

Listings == SeqsUpTo(ListedRaws, MaxList)

RetryAfterHeaders ==
  [remaining |-> -1, limit |-> -1, reset |-> NoNum, retryAfter |-> 2]

\* the headers a response of the given status may carry
HeaderChoices(status) ==
  IF status = 429 THEN {NoHeaders, RetryAfterHeaders} ELSE {NoHeaders}

FailStatuses == {400, 402, 404, 429, 500}

NoResponses == {NoResponse(w) : w \in {"timeout", "network"}}

\* a call answered with a status outside 2xx, or not answered
FailedExchanges(statuses) ==
  NoResponses
    \cup UNION { {Response(st, h, <<>>) : h \in HeaderChoices(st)} : st \in statuses }

ConflictExchanges == {Response(409, NoHeaders, <<>>)}

PostExchanges ==
  FailedExchanges(FailStatuses) \cup ConflictExchanges
    \cup {Response(st, NoHeaders, b) : st \in {200, 201}, b \in CreateBodies}

PatchExchanges ==
  FailedExchanges(FailStatuses) \cup {Response(200, NoHeaders, <<>>)}

GetExchanges(listings) ==
  FailedExchanges(FailStatuses) \cup {Response(200, NoHeaders, l) : l \in listings}

IdExchanges ==
  FailedExchanges(FailStatuses) \cup {Response(200, NoHeaders, b) : b \in IdBodies}

\* Math.random() * 500 lies in [0, 500)
Jitters == {0, JitterMax - 1}

\* the time a sleep of d ms takes (setTimeout fires no earlier than d)
Elapsed(d) == ((d + TimerGrain - 1) \div TimerGrain) * TimerGrain

\* ListOptions: status "" and the numbers -1 are options not given;
\* eta_from and eta_to are calendar dates, counted in days
NoOptions == [status |-> "", limit |-> -1, eta_from |-> -1, eta_to |-> -1]
NoQuery == [none |-> TRUE]

StatusOptions(status) == [NoOptions EXCEPT !.status = status, !.limit = ListLimit]

\* toISOString().split("T")[0]: the calendar date (UTC) of the instant t
DateOf(t) == t \div MsPerDay

\* the same options without the status filter
ArrivingOptionsUnfiltered(days, t) ==
  [ status |-> "", limit |-> ListLimit,
    eta_from |-> DateOf(t), eta_to |-> DateOf(t + days * MsPerDay) ]

\* the options getArrivingSoon(days) lists with at time t
ArrivingOptions(days, t) ==
  [ status |-> "EN_ROUTE", limit |-> ListLimit,
    eta_from |-> DateOf(t), eta_to |-> DateOf(t + days * MsPerDay) ]

ArrivingDays == {1, MaxDays}

\* clock readings early in a day, in its last millisecond and at midnight
ClockStarts == {StartTime, 3 * MsPerDay - 1, 3 * MsPerDay}

\* upstream shipments as a listing filtered by status shows them
ListedIds == {"1", "2"}
RawWithStatus(id, status) ==
  RawShipment(id, IF status = "PENDING" THEN <<"P","E","N","D","I","N","G">>
                  ELSE <<"E","N","_","R","O","U","T","E">>, 1, 0)

\* the listings a query filtered by status can be answered with: shipments
\* of that status, none of them twice
ListingsOf(status) ==
  { l \in SeqsUpTo({RawWithStatus(id, status) : id \in ListedIds}, MaxList) :
      \A i, j \in 1..Len(l) : i # j => l[i].id # l[j].id }

FilteredExchanges(status) ==
  FailedExchanges(FailStatuses)
    \cup {Response(200, NoHeaders, l) : l \in ListingsOf(status)}

Ids == {"1"}
SearchRefs == {"SO-1"}

\* createShipment(data, customReference) as the CLI calls it
CreateInputs ==
  { [kind |-> "bl",        ref |-> <<"a","1">>, customReference |-> "SO-1"],
    [kind |-> "container", ref |-> <<"A","1">>, customReference |-> ""],
    [kind |-> "booking",   ref |-> <<"A","1">>, customReference |-> "SO-1"] }

\* ------------------------------------------------------------------------
\* State
\* ------------------------------------------------------------------------
VARIABLES
  cache,          \* the PluginCache store: key -> [data, ttl]
  cacheDisabled,  \* ShipsGoClient.cacheDisabled
  storeDisabled,  \* the store's own switch: cache.disable() / cache.enable()
  rateLimit,      \* the persisted RateLimitData
  now,            \* Date.now()
  pc,             \* where the running operation stands
  inv,            \* the running invocation: arguments, locals, call counts
  result,         \* what the last operation returned or threw
  opsDone,        \* operations invoked so far
  createsDone     \* createShipment invocations that reached the remote

vars == <<cache, cacheDisabled, storeDisabled, rateLimit, now, pc, inv, result, opsDone,
          createsDone>>

NoResult == [kind |-> "none"]
Return(v) == [kind |-> "return", value |-> v]
Throw(e)  == [kind |-> "throw", error |-> e]

NoCall == [method |-> "", status |-> -1, why |-> "", retryAfter |-> -1]
CallOf(method, x) ==
  [method |-> method, status |-> x.status, why |-> x.why,
   retryAfter |-> x.headers.retryAfter]

\* op, kind, ref, customReference: the call; attempt, lastError: the locals of
\* fetchWithRetry; shipment: the created shipment while the PATCH is out;
\* conflict, remoteBest: this attempt's POST was answered 409 and the best
\* match of what the remote lists for the reference; nPost..nSleep: calls
\* issued and sleeps taken; last: the last call answered in this attempt;
\* arg: the argument of a private function applied on its own; query: the
\* options of the last listing query issued; lostCreate: the server has
\* processed a POST of this invocation whose response never arrived.
IdleInv ==
  [ op |-> "", kind |-> "", ref |-> <<>>, customReference |-> "", arg |-> <<>>,
    query |-> NoQuery, lostCreate |-> FALSE,
    attempt |-> 0, lastError |-> NoError, shipment |-> NullData,
    conflict |-> FALSE, remoteBest |-> NullData,
    nPost |-> 0, nPatch |-> 0, nGet |-> 0, nSleep |-> 0, last |-> NoCall ]

Init ==
  /\ cache = <<>>
  /\ cacheDisabled = FALSE
  /\ storeDisabled = FALSE
  /\ rateLimit = EmptyRateLimit
  /\ now = StartTime
  /\ pc = "idle"
  /\ inv = IdleInv
  /\ result = NoResult
  /\ opsDone = 0
  /\ createsDone = 0

CanStart == pc \in {"idle", "done"} /\ opsDone < MaxOps

\* ------------------------------------------------------------------------
\* createShipment
\* ------------------------------------------------------------------------
CreateResult(shipment, source, creditUsed, warning) ==
  [shipment |-> shipment, source |-> source, creditUsed |-> creditUsed,
   warning |-> warning]

\* seeded fault: the 409 branch reports a credit as used
ExistingCharged(shipment) == CreateResult(shipment, "existing", TRUE, "")

CachedResult(shipment)  == CreateResult(shipment, "cache", FALSE, "")
CreatedResult(shipment, warning) == CreateResult(shipment, "created", TRUE, warning)
ExistingResult(shipment) == CreateResult(shipment, "existing", FALSE, "")

\* seeded fault: step 1 never answers from the cache
NeverUsable(cachedResult) == FALSE

\* step 1: cachedResult.hit && cachedResult.data && !cachedResult.data.discarded_at
CacheHitUsable(cachedResult) ==
  /\ cachedResult.hit
  /\ cachedResult.data # NullData
  /\ cachedResult.data.discarded_at = 0

\* seeded fault: the catch block allows one attempt more
CatchOneMore(e, i) ==
  LET i1 == [i EXCEPT !.lastError = e]
  IN IF IsClientError(e)
     THEN [pc |-> "done", inv |-> i1, result |-> Throw(e)]
     ELSE IF i.attempt = MaxRetries + 1
          THEN [pc |-> "done", inv |-> i1, result |-> Throw(i1.lastError)]
          ELSE [pc |-> "sleep", inv |-> i1, result |-> NoResult]

\* the catch block of fetchWithRetry, for error e thrown by attempt i.attempt
Catch(e, i) ==
  LET i1 == [i EXCEPT !.lastError = e]
  IN IF IsClientError(e)
     THEN [pc |-> "done", inv |-> i1, result |-> Throw(e)]
     ELSE IF i.attempt = MaxRetries
          THEN [pc |-> "done", inv |-> i1, result |-> Throw(i1.lastError)]
          ELSE [pc |-> "sleep", inv |-> i1, result |-> NoResult]

\* an attempt of the wrapped operation threw e
Raise(e, i, c, rl) ==
  /\ cache' = c
  /\ rateLimit' = rl
  /\ LET r == Catch(e, i)
     IN pc' = r.pc /\ inv' = r.inv /\ result' = r.result
  /\ UNCHANGED <<cacheDisabled, storeDisabled, now, opsDone, createsDone>>

\* the wrapped operation returned v: fetchWithRetry returns it
Finish(v, i, c, rl) ==
  /\ cache' = c
  /\ rateLimit' = rl
  /\ pc' = "done"
  /\ inv' = i
  /\ result' = Return(v)
  /\ UNCHANGED <<cacheDisabled, storeDisabled, now, opsDone, createsDone>>

Noted(i, method, x) == [i EXCEPT !.last = CallOf(method, x)]

NewInv(op, kind, ref, customReference) ==
  [IdleInv EXCEPT !.op = op, !.kind = kind, !.ref = ref,
                  !.customReference = customReference]

CreateFromCache(in) ==
  /\ CanStart
  /\ LET cachedResult == CacheGet(cache, BuildCacheKey(in), storeDisabled)
     IN /\ CacheHitUsable(cachedResult)
        /\ result' = Return(CachedResult(cachedResult.data))
  /\ pc' = "done"
  /\ inv' = NewInv("createShipment", in.kind, in.ref, in.customReference)
  /\ opsDone' = opsDone + 1
  /\ UNCHANGED <<cache, cacheDisabled, storeDisabled, rateLimit, now, createsDone>>

CreateStart(in) ==
  /\ CanStart
  /\ createsDone < MaxCreates
  /\ ~CacheHitUsable(CacheGet(cache, BuildCacheKey(in), storeDisabled))
  /\ pc' = "post"
  /\ inv' = [NewInv("createShipment", in.kind, in.ref, in.customReference)
               EXCEPT !.nPost = 1]
  /\ result' = NoResult
  /\ opsDone' = opsDone + 1
  /\ createsDone' = createsDone + 1
  /\ UNCHANGED <<cache, cacheDisabled, storeDisabled, rateLimit, now>>

CreateKey == BuildCacheKey(inv)

\* the POST fails inside request(): no response, 429 or 402
PostThrows(x) ==
  /\ pc = "post"
  /\ RequestError(x) # NoError
  /\ Raise(RequestError(x), Noted(inv, "POST", x), cache,
           RequestRateLimit(rateLimit, x, now))

\* the POST gets no response although the server has processed it and created
\* the tracking entry: request() throws as for any lost response
PostLost(x) ==
  /\ pc = "post"
  /\ ~x.responded
  /\ Raise(RequestError(x), [Noted(inv, "POST", x) EXCEPT !.lostCreate = TRUE],
           cache, RequestRateLimit(rateLimit, x, now))

\* customReference && shipment.id
WantsPatch(customReference, shipment) == customReference # "" /\ shipment.id # ""

\* 200/201 without a reference to set: cache and return
PostCreated(x) ==
  /\ pc = "post"
  /\ x.responded /\ x.status \in {200, 201}
  /\ LET shipment == MapToShipment(x.body, now)
     IN /\ ~WantsPatch(inv.customReference, shipment)
        /\ Finish(CreatedResult(shipment, ""), Noted(inv, "POST", x),
                  CacheSet(cache, CreateKey, shipment, GetCacheTTL(shipment)),
                  RequestRateLimit(rateLimit, x, now))

\* 200/201 with a reference to set: issue the PATCH
PostCreatedPatch(x) ==
  /\ pc = "post"
  /\ x.responded /\ x.status \in {200, 201}
  /\ LET shipment == MapToShipment(x.body, now)
     IN /\ WantsPatch(inv.customReference, shipment)
        /\ inv' = [Noted(inv, "POST", x) EXCEPT !.shipment = shipment,
                                                !.nPatch = @ + 1]
  /\ pc' = "patch"
  /\ rateLimit' = RequestRateLimit(rateLimit, x, now)
  /\ UNCHANGED <<cache, cacheDisabled, storeDisabled, now, result, opsDone, createsDone>>

\* the warning the PATCH leaves, "" (undefined) when it succeeded
PatchWarning(x) ==
  IF RequestError(x) # NoError
  THEN "Reference update failed: " \o RequestError(x).message
  ELSE IF ~ResponseOk(x.status)
       THEN "Reference update failed. Shipment created but reference not set."
       ELSE ""

\* seeded fault: an error thrown by the PATCH is not caught
AfterPatchRethrow(x, i, c, rl) ==
  IF RequestError(x) # NoError
  THEN Raise(RequestError(x), i, c, rl)
  ELSE Finish(CreatedResult(i.shipment, PatchWarning(x)), i,
              CacheSet(c, BuildCacheKey(i), i.shipment, GetCacheTTL(i.shipment)), rl)

\* the try/catch around the PATCH, then cache.set and return
AfterPatch(x, i, c, rl) ==
  Finish(CreatedResult(i.shipment, PatchWarning(x)), i,
         CacheSet(c, BuildCacheKey(i), i.shipment, GetCacheTTL(i.shipment)), rl)

PatchResponds(x) ==
  /\ pc = "patch"
  /\ AfterPatch(x, Noted(inv, "PATCH", x), cache,
                RequestRateLimit(rateLimit, x, now))

\* what the 409 branch does with the shipment fetchByReference returned
AfterFetchExisting(existing, i, c, rl) ==
  IF existing # NullData
  THEN Finish(ExistingResult(existing), i,
              CacheSet(c, BuildCacheKey(i), existing, GetCacheTTL(existing)), rl)
  ELSE Raise(PlainError(ConflictMessage), i, c, rl)

NotedConflict(i, x, listing, t) ==
  [Noted(i, "POST", x) EXCEPT !.conflict = TRUE,
                              !.remoteBest = SelectBestMatch(MapAll(listing, t))]

\* 409: fetchByReference -> trackByX -> cache.getOrFetch answers from the cache
PostConflictCached(x, listing) ==
  /\ pc = "post"
  /\ x.responded /\ x.status = 409
  /\ LET got == CacheGet(cache, TrackCacheKey(inv.kind, inv.ref),
                         cacheDisabled \/ storeDisabled)
     IN /\ got.hit
        /\ AfterFetchExisting(got.data, NotedConflict(inv, x, listing, now), cache,
                              RequestRateLimit(rateLimit, x, now))

\* 409: fetchByReference -> trackByX -> cache.getOrFetch calls the producer
PostConflictFetch(x, listing) ==
  /\ pc = "post"
  /\ x.responded /\ x.status = 409
  /\ ~CacheGet(cache, TrackCacheKey(inv.kind, inv.ref),
               cacheDisabled \/ storeDisabled).hit
  /\ pc' = "get"
  /\ inv' = [NotedConflict(inv, x, listing, now) EXCEPT !.nGet = @ + 1]
  /\ rateLimit' = RequestRateLimit(rateLimit, x, now)
  /\ UNCHANGED <<cache, cacheDisabled, storeDisabled, now, result, opsDone, createsDone>>

\* any other status: throw new ApiError(response.status, responseData)
PostOtherStatus(x) ==
  /\ pc = "post"
  /\ x.responded /\ x.status \notin {200, 201, 409, 429, 402}
  /\ Raise(ApiError(x.status), Noted(inv, "POST", x), cache,
           RequestRateLimit(rateLimit, x, now))

\* the producer of trackByBL / trackByContainer / trackByBooking
TrackFetch(x, t) ==
  IF RequestError(x) # NoError
  THEN [threw |-> TRUE, error |-> RequestError(x), value |-> NullData]
  ELSE IF ~ResponseOk(x.status)
       THEN (IF x.status = 404
             THEN [threw |-> FALSE, error |-> NoError, value |-> NullData]
             ELSE [threw |-> TRUE, error |-> ApiError(x.status), value |-> NullData])
       ELSE [threw |-> FALSE, error |-> NoError,
             value |-> SelectBestMatch(MapAll(x.body, t))]

\* the remote lists for the GET what it listed when it answered 409
SameListing(x, best, t) ==
  (x.responded /\ ResponseOk(x.status)) => SelectBestMatch(MapAll(x.body, t)) = best

\* the fetch-existing GET is answered
GetResponds(x) ==
  /\ pc = "get"
  /\ SameListing(x, inv.remoteBest, now)
  /\ LET out  == TrackFetch(x, now)
         i1   == Noted(inv, "GET", x)
         rl   == RequestRateLimit(rateLimit, x, now)
     IN IF out.threw THEN Raise(out.error, i1, cache, rl)
        ELSE AfterFetchExisting(out.value, i1,
               CacheSet(cache, TrackCacheKey(inv.kind, inv.ref), out.value,
                        TTL_HOUR * 2), rl)

\* await this.sleep(delay), then the next attempt issues its POST
Sleep(jitter) ==
  /\ pc = "sleep"
  /\ now' = now + Elapsed(RetryDelay(inv.lastError, inv.attempt, jitter))
  /\ inv' = [inv EXCEPT !.attempt = @ + 1, !.nSleep = @ + 1, !.nPost = @ + 1,
                        !.conflict = FALSE, !.remoteBest = NullData,
                        !.last = NoCall]
  /\ pc' = "post"
  /\ UNCHANGED <<cache, cacheDisabled, storeDisabled, rateLimit, result, opsDone, createsDone>>

\* ------------------------------------------------------------------------
\* Read operations: each issues its one call through request() directly
\* ------------------------------------------------------------------------
Thrown(e)  == [threw |-> TRUE, error |-> e, value |-> NullData]
Produced(v) == [threw |-> FALSE, error |-> NoError, value |-> v]

\* cache.getOrFetch(key, producer, {ttl, bypassCache}) on store c with switch
\* off: on a hit the cached value, without the producer; on a miss or bypass
\* what the producer makes of the exchange (out), stored when it returns
FetchThrough(c, off, key, ttl, bypassCache, out) ==
  LET got == CacheGet(c, key, bypassCache \/ off)
  IN IF got.hit
     THEN [called |-> FALSE, result |-> Return(got.data), cache |-> c]
     ELSE IF out.threw
          THEN [called |-> TRUE, result |-> Throw(out.error), cache |-> c]
          ELSE [called |-> TRUE, result |-> Return(out.value),
                cache |-> CacheSet(c, key, out.value, ttl)]

\* an operation, invoked as i0, whose whole body is
\* cache.getOrFetch(key, producer, {ttl, bypassCache}); x is the exchange of
\* the producer's call and out what the producer makes of it
GetOrFetch(i0, key, ttl, bypassCache, x, out) ==
  /\ CanStart
  /\ LET f == FetchThrough(cache, storeDisabled, key, ttl, bypassCache, out)
     IN /\ result' = f.result
        /\ cache' = f.cache
        /\ inv' = IF f.called THEN [Noted(i0, "GET", x) EXCEPT !.nGet = 1] ELSE i0
        /\ rateLimit' = IF f.called THEN RequestRateLimit(rateLimit, x, now)
                        ELSE rateLimit
  /\ pc' = "done"
  /\ opsDone' = opsDone + 1
  /\ UNCHANGED <<cacheDisabled, storeDisabled, now, createsDone>>

\* trackByBL / trackByContainer / trackByBooking
TrackBy(kind, ref, x) ==
  GetOrFetch(NewInv("trackBy", kind, ref, ""), TrackCacheKey(kind, ref),
             TTL_HOUR * 2, cacheDisabled, x, TrackFetch(x, now))

\* the producer of getShipmentById
ShipmentByIdFetch(x, t) ==
  IF RequestError(x) # NoError THEN Thrown(RequestError(x))
  ELSE IF ~ResponseOk(x.status) THEN Thrown(ApiError(x.status))
  ELSE Produced(MapToShipment(x.body, t))

GetShipmentById(id, x) ==
  GetOrFetch(NewInv("getShipmentById", "", id, ""),
             CreateCacheKey("shipment:id", id), TTL_HOUR * 2, cacheDisabled, x,
             ShipmentByIdFetch(x, now))

\* the producer of listShipments; the payload carries no count
ListFetch(x, t) ==
  IF RequestError(x) # NoError THEN Thrown(RequestError(x))
  ELSE IF ~ResponseOk(x.status) THEN Thrown(ApiError(x.status))
  ELSE Produced([shipments |-> MapAll(x.body, t), count |-> Len(x.body)])

\* listShipments() without options
ListShipments(x) ==
  GetOrFetch(NewInv("listShipments", "", <<>>, ""),
             CreateCacheKey("list:shipments", NoOptions), TTL_FIFTEEN_MINUTES,
             cacheDisabled, x,
             ListFetch(x, now))

\* listShipments(options) inside another operation, on store c and record rl:
\* whether it issued its query, its outcome, and the store and record after it
ListThrough(c, rl, options, x, t) ==
  LET f == FetchThrough(c, storeDisabled, CreateCacheKey("list:shipments", options),
                        TTL_FIFTEEN_MINUTES, cacheDisabled, ListFetch(x, t))
  IN [ called |-> f.called, result |-> f.result, cache |-> f.cache,
       rateLimit |-> IF f.called THEN RequestRateLimit(rl, x, t) ELSE rl ]

\* the invocation record after a nested listing: its query noted when issued
NotedListing(i, l, options, x) ==
  IF l.called
  THEN [Noted(i, "GET", x) EXCEPT !.nGet = @ + 1, !.query = options]
  ELSE i

\* listShipments(options) with options given
ListShipmentsWith(options, x) ==
  /\ CanStart
  /\ LET l == ListThrough(cache, rateLimit, options, x, now)
     IN /\ result' = l.result
        /\ cache' = l.cache
        /\ rateLimit' = l.rateLimit
        /\ inv' = NotedListing(NewInv("listShipments", "", <<>>, ""), l, options, x)
  /\ pc' = "done"
  /\ opsDone' = opsDone + 1
  /\ UNCHANGED <<cacheDisabled, storeDisabled, now, createsDone>>

\* getArrivingSoon(days): getOrFetch around one listShipments
GetArrivingSoon(days, x) ==
  /\ CanStart
  /\ LET cacheKey == CreateCacheKey("list:arriving", days)
         got      == CacheGet(cache, cacheKey, cacheDisabled \/ storeDisabled)
         options  == ArrivingOptions(days, now)
         l        == ListThrough(cache, rateLimit, options, x, now)
         i0       == NewInv("getArrivingSoon", "", days, "")
     IN IF got.hit
        THEN /\ result' = Return(got.data)
             /\ inv' = i0
             /\ UNCHANGED <<cache, rateLimit>>
        ELSE /\ inv' = NotedListing(i0, l, options, x)
             /\ rateLimit' = l.rateLimit
             /\ IF l.result.kind = "throw"
                THEN result' = l.result /\ cache' = l.cache
                ELSE /\ result' = Return(l.result.value.shipments)
                     /\ cache' = CacheSet(l.cache, cacheKey, l.result.value.shipments,
                                          TTL_THIRTY_MINUTES)
  /\ pc' = "done"
  /\ opsDone' = opsDone + 1
  /\ UNCHANGED <<cacheDisabled, storeDisabled, now, createsDone>>

\* the identifiers of a listing
IdsOf(raws) == {raws[i].id : i \in 1..Len(raws)}

\* the two answers are taken in one call: no shipment is listed under both
\* statuses
OneStatusEach(x1, x2) ==
  (x1.responded /\ ResponseOk(x1.status) /\ x2.responded /\ ResponseOk(x2.status))
    => IdsOf(x1.body) \cap IdsOf(x2.body) = {}

\* getActiveShipments: getOrFetch around listShipments EN_ROUTE, then PENDING
GetActiveShipments(x1, x2) ==
  /\ CanStart
  /\ LET cacheKey == CreateCacheKey("list:active", <<>>)
         got      == CacheGet(cache, cacheKey, cacheDisabled \/ storeDisabled)
         i0       == NewInv("getActiveShipments", "", <<>>, "")
         enRoute  == ListThrough(cache, rateLimit, StatusOptions("EN_ROUTE"), x1, now)
         i1       == NotedListing(i0, enRoute, StatusOptions("EN_ROUTE"), x1)
         pending  == ListThrough(enRoute.cache, enRoute.rateLimit,
                                 StatusOptions("PENDING"), x2, now)
         i2       == NotedListing(i1, pending, StatusOptions("PENDING"), x2)
     IN IF got.hit
        THEN /\ result' = Return(got.data)
             /\ inv' = i0
             /\ UNCHANGED <<cache, rateLimit>>
        ELSE IF enRoute.result.kind = "throw"
        THEN /\ result' = enRoute.result
             /\ inv' = i1
             /\ cache' = enRoute.cache
             /\ rateLimit' = enRoute.rateLimit
        ELSE IF pending.result.kind = "throw"
        THEN /\ result' = pending.result
             /\ inv' = i2
             /\ cache' = pending.cache
             /\ rateLimit' = pending.rateLimit
        ELSE LET active == enRoute.result.value.shipments
                             \o pending.result.value.shipments
             IN /\ OneStatusEach(x1, x2) \/ ~enRoute.called \/ ~pending.called
                /\ result' = Return(active)
                /\ inv' = i2
                /\ cache' = CacheSet(pending.cache, cacheKey, active,
                                     TTL_FIFTEEN_MINUTES)
                /\ rateLimit' = pending.rateLimit
  /\ pc' = "done"
  /\ opsDone' = opsDone + 1
  /\ UNCHANGED <<cacheDisabled, storeDisabled, now, createsDone>>

\* the producer of searchByReference
SearchFetch(x, t) ==
  IF RequestError(x) # NoError THEN Thrown(RequestError(x))
  ELSE IF ~ResponseOk(x.status)
       THEN (IF x.status = 404 THEN Produced(<<>>) ELSE Thrown(ApiError(x.status)))
       ELSE Produced(MapAll(x.body, t))

SearchByReference(reference, x) ==
  GetOrFetch(NewInv("searchByReference", "", reference, ""),
             CreateCacheKey("search", reference), TTL_FIFTEEN_MINUTES, cacheDisabled, x,
             SearchFetch(x, now))

\* the producer of getVesselPosition
PositionFetch(x, t) ==
  IF RequestError(x) # NoError THEN Thrown(RequestError(x))
  ELSE IF ~ResponseOk(x.status)
       THEN (IF x.status = 404 THEN Produced(NullData)
             ELSE Thrown(ApiError(x.status)))
       ELSE LET shipment == MapToShipment(x.body, t)
            IN IF shipment.coordinates = NoCoords THEN Produced(NullData)
               ELSE Produced([lat |-> shipment.coordinates.lat,
                              lng |-> shipment.coordinates.lng,
                              vessel |-> "Unknown"])

GetVesselPosition(id, x) ==
  GetOrFetch(NewInv("getVesselPosition", "", id, ""),
             CreateCacheKey("position", id), TTL_THIRTY_MINUTES, cacheDisabled, x,
             PositionFetch(x, now))

\* the SharingLinkResult built from a payload
SharingLinkResult(id, mapToken) ==
  [url |-> "https://map.shipsgo.com/ocean/shipments/" \o id \o "?token=" \o mapToken,
   shipmentId |-> id]

\* (data.shipment || data).tokens?.map
MapToken(data) ==
  LET shipmentData == IF data.shipment # NullData THEN data.shipment ELSE data
  IN shipmentData.tokensMap

\* what getSharingLink makes of the exchange; null when no token is there
SharingLinkFetch(id, x) ==
  IF RequestError(x) # NoError THEN Thrown(RequestError(x))
  ELSE IF ~ResponseOk(x.status)
       THEN (IF x.status = 404 THEN Produced(NullData)
             ELSE Thrown(ApiError(x.status)))
       ELSE IF MapToken(x.body) = "" THEN Produced(NullData)
       ELSE Produced(SharingLinkResult(id, MapToken(x.body)))

\* seeded fault: getSharingLink stores whatever it returns, null included
GetSharingLinkStoreAll(id, x) ==
  /\ CanStart
  /\ LET cacheKey == CreateCacheKey("sharing-link", id)
         cached   == CacheGet(cache, cacheKey, storeDisabled)
         i0       == NewInv("getSharingLink", "", id, "")
         out      == SharingLinkFetch(id, x)
     IN IF cached.hit /\ cached.data # NullData
        THEN /\ result' = Return(cached.data)
             /\ inv' = i0
             /\ UNCHANGED <<cache, rateLimit>>
        ELSE /\ inv' = [Noted(i0, "GET", x) EXCEPT !.nGet = 1]
             /\ rateLimit' = RequestRateLimit(rateLimit, x, now)
             /\ IF out.threw
                THEN result' = Throw(out.error) /\ UNCHANGED cache
                ELSE /\ result' = Return(out.value)
                     /\ cache' = CacheSet(cache, cacheKey, out.value, TTL_DAY)
  /\ pc' = "done"
  /\ opsDone' = opsDone + 1
  /\ UNCHANGED <<cacheDisabled, storeDisabled, now, createsDone>>

\* getSharingLink: cache.get, the call, cache.set of a result that is not null
GetSharingLink(id, x) ==
  /\ CanStart
  /\ LET cacheKey == CreateCacheKey("sharing-link", id)
         cached   == CacheGet(cache, cacheKey, storeDisabled)
         i0       == NewInv("getSharingLink", "", id, "")
         out      == SharingLinkFetch(id, x)
     IN IF cached.hit /\ cached.data # NullData
        THEN /\ result' = Return(cached.data)
             /\ inv' = i0
             /\ UNCHANGED <<cache, rateLimit>>
        ELSE /\ inv' = [Noted(i0, "GET", x) EXCEPT !.nGet = 1]
             /\ rateLimit' = RequestRateLimit(rateLimit, x, now)
             /\ IF out.threw
                THEN result' = Throw(out.error) /\ UNCHANGED cache
                ELSE /\ result' = Return(out.value)
                     /\ cache' = IF out.value # NullData
                                 THEN CacheSet(cache, cacheKey, out.value, TTL_DAY)
                                 ELSE cache
  /\ pc' = "done"
  /\ opsDone' = opsDone + 1
  /\ UNCHANGED <<cacheDisabled, storeDisabled, now, createsDone>>

\* ------------------------------------------------------------------------
\* Cache control
\* ------------------------------------------------------------------------
\* seeded fault: disableCache sets the client's flag, not the store's switch
DisableCacheFlagOnly ==
  /\ pc \in {"idle", "done"}
  /\ ~cacheDisabled
  /\ cacheDisabled' = TRUE
  /\ UNCHANGED <<cache, storeDisabled, rateLimit, now, pc, inv, result, opsDone,
                 createsDone>>

DisableCache ==
  /\ pc \in {"idle", "done"}
  /\ ~cacheDisabled
  /\ cacheDisabled' = TRUE
  /\ storeDisabled' = TRUE
  /\ UNCHANGED <<cache, rateLimit, now, pc, inv, result, opsDone, createsDone>>

EnableCache ==
  /\ pc \in {"idle", "done"}
  /\ cacheDisabled
  /\ cacheDisabled' = FALSE
  /\ storeDisabled' = FALSE
  /\ UNCHANGED <<cache, rateLimit, now, pc, inv, result, opsDone, createsDone>>

\* invalidateShipment(id): the entries of getShipmentById and getSharingLink
\* the second invalidation skipped when the first removed an entry
InvalidateShipmentShortCircuit(c, id) ==
  IF CreateCacheKey("shipment:id", id) \in DOMAIN c
  THEN CacheInvalidate(c, CreateCacheKey("shipment:id", id))
  ELSE CacheInvalidate(c, CreateCacheKey("sharing-link", id))

\* ids the cache-invalidate command is given: a cached one and another one
InvalidateIds == Ids \cup {"2"}

InvalidateShipment(c, id) ==
  CacheInvalidate(CacheInvalidate(c, CreateCacheKey("shipment:id", id)),
                  CreateCacheKey("sharing-link", id))

\* the refresh-shipment command: invalidateShipment, disableCache,
\* getShipmentById
\* the cache-invalidate command: invalidateShipment(id) and its report; it
\* issues no remote call
CacheInvalidateCommand(id) ==
  /\ pc \in {"idle", "done"}
  /\ cache' = InvalidateShipment(cache, id)
  /\ inv' = NewInv("invalidateShipment", "", id, "")
  /\ result' = Return([ success |->
                          \/ CreateCacheKey("shipment:id", id) \in DOMAIN cache
                          \/ CreateCacheKey("sharing-link", id) \in DOMAIN cache,
                        id |-> id ])
  /\ pc' = "done"
  /\ UNCHANGED <<cacheDisabled, storeDisabled, rateLimit, now, opsDone, createsDone>>

RefreshShipment(id, x) ==
  /\ CanStart
  /\ LET f == FetchThrough(InvalidateShipment(cache, id), TRUE,
                           CreateCacheKey("shipment:id", id), TTL_HOUR * 2, TRUE,
                           ShipmentByIdFetch(x, now))
         i0 == NewInv("refresh-shipment", "", id, "")
     IN /\ result' = f.result
        /\ cache' = f.cache
        /\ inv' = IF f.called THEN [Noted(i0, "GET", x) EXCEPT !.nGet = 1] ELSE i0
        /\ rateLimit' = IF f.called THEN RequestRateLimit(rateLimit, x, now)
                        ELSE rateLimit
  /\ cacheDisabled' = TRUE
  /\ storeDisabled' = TRUE
  /\ pc' = "done"
  /\ opsDone' = opsDone + 1
  /\ UNCHANGED <<now, createsDone>>

\* ------------------------------------------------------------------------
\* Specification
\* ------------------------------------------------------------------------
Next ==
  \/ \E in \in CreateInputs : CreateFromCache(in)
  \/ \E in \in CreateInputs : CreateStart(in)
  \/ \E x \in PostExchanges : PostThrows(x)
  \/ \E x \in PostExchanges : PostCreated(x)
  \/ \E x \in PostExchanges : PostCreatedPatch(x)
  \/ \E x \in PatchExchanges : PatchResponds(x)
  \/ \E x \in ConflictExchanges, l \in Listings : PostConflictCached(x, l)
  \/ \E x \in ConflictExchanges, l \in Listings : PostConflictFetch(x, l)
  \/ \E x \in PostExchanges : PostOtherStatus(x)
  \/ \E x \in GetExchanges(Listings) : GetResponds(x)
  \/ \E j \in Jitters : Sleep(j)
  \/ \E in \in CreateInputs, x \in GetExchanges(Listings) : TrackBy(in.kind, in.ref, x)

Spec == Init /\ [][Next]_vars

\* the read operations and the cache switch
NextRead ==
  \/ \E in \in CreateInputs, x \in GetExchanges(Listings) : TrackBy(in.kind, in.ref, x)
  \/ \E id \in Ids, x \in IdExchanges : GetShipmentById(id, x)
  \/ \E x \in GetExchanges(Listings) : ListShipments(x)
  \/ \E r \in SearchRefs, x \in GetExchanges(Listings) : SearchByReference(r, x)
  \/ \E id \in Ids, x \in IdExchanges : GetVesselPosition(id, x)
  \/ \E id \in Ids, x \in IdExchanges : GetSharingLink(id, x)
  \/ \E id \in Ids, x \in IdExchanges : RefreshShipment(id, x)
  \/ \E id \in InvalidateIds : CacheInvalidateCommand(id)
  \/ DisableCache
  \/ EnableCache

SpecRead == Init /\ [][NextRead]_vars

\* ------------------------------------------------------------------------
\* Listings over time
\* ------------------------------------------------------------------------
\* The ttl of a stored entry is the time it still has to live, in minutes: an
\* entry is gone once its ttl has run out. MaxOps bounds the operations
\* between two advances of the clock.
MsPerMinute == MsPerDay \div (24 * 60)

Aged(c, minutes) ==
  [k \in {key \in DOMAIN c : c[key].ttl > minutes} |->
     [c[k] EXCEPT !.ttl = @ - minutes]]

Advance ==
  /\ pc \in {"idle", "done"}
  /\ now < StartTime + MaxAdvances * AdvanceMinutes * MsPerMinute
  /\ now' = now + AdvanceMinutes * MsPerMinute
  /\ cache' = Aged(cache, AdvanceMinutes)
  /\ opsDone' = 0
  /\ UNCHANGED <<cacheDisabled, storeDisabled, rateLimit, pc, inv, result, createsDone>>

\* a listed shipment whose payload has no creation date: mapToShipment dates
\* it with the time of the mapping, which is the time of the fetch
UndatedRaw(status) ==
  [RawWithStatus(IF status = "PENDING" THEN "2" ELSE "1", status)
     EXCEPT !.createdAt = 0]

DatingExchanges(status) ==
  {Response(200, NoHeaders, <<UndatedRaw(status)>>), NoResponse("timeout")}

\* ------------------------------------------------------------------------
\* Client processes sharing the rate-limit file
\* ------------------------------------------------------------------------
\* Each CLI invocation is a process of its own. Within a process
\* updateRateLimitFromResponse runs without interruption up to its end, but
\* readFileSync and writeFileSync are two system calls: another process can
\* read or write the file between them. Here rateLimit is the file, and
\* inv[p] the state of process p: where it is, the record it has read, the
\* headers of the response it handles, and how many responses it has handled.
Procs == {1, 2}

IdleProc == [at |-> "idle", data |-> EmptyRateLimit, h |-> NoHeaders, handled |-> 0]

InitRace ==
  /\ cache = <<>>
  /\ cacheDisabled = FALSE
  /\ storeDisabled = FALSE
  /\ rateLimit = EmptyRateLimit
  /\ now = StartTime
  /\ pc = "idle"
  /\ inv = [p \in Procs |-> IdleProc]
  /\ result = NoResult
  /\ opsDone = 0
  /\ createsDone = 0

InHand == Cardinality({p \in Procs : inv[p].at = "loaded"})

\* a response reaches process p, which reads the file (l.216, l.196-205); no
\* condition on the record stands before the call or the read
LoadRateLimitData(p, h) ==
  /\ inv[p].at = "idle"
  /\ opsDone + InHand < MaxResponses
  /\ inv' = [inv EXCEPT ![p].at = "loaded", ![p].data = rateLimit, ![p].h = h]
  /\ UNCHANGED <<cache, cacheDisabled, storeDisabled, rateLimit, now, pc, result,
                 opsDone, createsDone>>

\* process p modifies the record it has read and writes the file (l.218-235,
\* l.207-213)
SaveRateLimitData(p) ==
  /\ inv[p].at = "loaded"
  /\ rateLimit' = UpdateRateLimitFromResponse(inv[p].data, inv[p].h, now)
  /\ inv' = [inv EXCEPT ![p].at = "idle", ![p].handled = @ + 1]
  /\ opsDone' = opsDone + 1
  /\ UNCHANGED <<cache, cacheDisabled, storeDisabled, now, pc, result, createsDone>>

\* time passes
Tick ==
  /\ now < StartTime + MaxTicks * ClockStep
  /\ now' = now + ClockStep
  /\ UNCHANGED <<cache, cacheDisabled, storeDisabled, rateLimit, pc, inv, result,
                 opsDone, createsDone>>

NextRace ==
  \/ \E p \in Procs, h \in HeaderChoices(429) : LoadRateLimitData(p, h)
  \/ \E p \in Procs : SaveRateLimitData(p)
  \/ Tick

SpecRace == InitRace /\ [][NextRace]_vars

\* the options the list-shipments command and the aggregates list with
ListQueries(t) ==
  {StatusOptions("EN_ROUTE"), StatusOptions("PENDING")}
    \cup {ArrivingOptions(days, t) : days \in ArrivingDays}

\* the listing operations and the cache switch
NextList ==
  \/ \E options \in ListQueries(now) :
       \E x \in FilteredExchanges(options.status) : ListShipmentsWith(options, x)
  \/ \E days \in ArrivingDays, x \in FilteredExchanges("EN_ROUTE") :
       GetArrivingSoon(days, x)
  \/ \E x1 \in FilteredExchanges("EN_ROUTE"), x2 \in FilteredExchanges("PENDING") :
       GetActiveShipments(x1, x2)
  \/ DisableCache
  \/ EnableCache

\* the listing operations start at any of the clock readings ClockStarts
InitList ==
  /\ cache = <<>>
  /\ cacheDisabled = FALSE
  /\ storeDisabled = FALSE
  /\ rateLimit = EmptyRateLimit
  /\ now \in ClockStarts
  /\ pc = "idle"
  /\ inv = IdleInv
  /\ result = NoResult
  /\ opsDone = 0
  /\ createsDone = 0

SpecList == InitList /\ [][NextList]_vars

\* the listing operations as time passes
NextFresh ==
  \/ \E options \in ListQueries(now) :
       \E x \in DatingExchanges(options.status) : ListShipmentsWith(options, x)
  \/ \E days \in ArrivingDays, x \in DatingExchanges("EN_ROUTE") :
       GetArrivingSoon(days, x)
  \/ \E x1 \in DatingExchanges("EN_ROUTE"), x2 \in DatingExchanges("PENDING") :
       GetActiveShipments(x1, x2)
  \/ Advance

SpecFresh == Init /\ [][NextFresh]_vars

\* ------------------------------------------------------------------------
\* The private functions applied on their own, to arguments drawn at the start
\* ------------------------------------------------------------------------
\* upstream status values: the keys of statusMap in other spellings, none,
\* and one that statusMap does not know
RawStatuses ==
  { <<>>, <<"p","e","n","d","i","n","g">>,
    <<"i","n","-","t","r","a","n","s","i","t">>,
    <<"A","R","R","I","V","E","D">>, <<"D","e","l","i","v","e","r","e","d">>,
    <<"D","I","S","C","A","R","D","E","D">>, <<"N","O","T"," ","F","O","U","N","D">>,
    <<"H","E","L","D">> }

\* the instants a payload is created and discarded at
CreatedAts   == 1..MaxCreatedAt
DiscardedAts == {0, 3}

\* the shipments mapToShipment makes of such payloads
Shipments ==
  { MapToShipment(RawShipment("1", st, c, d), 0) :
      st \in RawStatuses, c \in CreatedAts, d \in DiscardedAts }

\* the upstream status values of the candidates of a selection
CandidateStatuses ==
  { <<"i","n","-","t","r","a","n","s","i","t">>, <<"A","R","R","I","V","E","D">>,
    <<"D","I","S","C","A","R","D","E","D">>, <<"H","E","L","D">> }

CandidateTraits == CandidateStatuses \X CreatedAts \X DiscardedAts

\* listings of up to MaxCandidates shipments, the i-th with identifier i
CandidateLists ==
  UNION { { [i \in 1..n |->
               MapToShipment(RawShipment(ToString(i), traits[i][1], traits[i][2],
                                         traits[i][3]), 0)] :
              traits \in [1..n -> CandidateTraits] } :
          n \in 0..MaxCandidates }

Applying(f, arg) == [IdleInv EXCEPT !.op = f, !.arg = arg]

\* the records the rate-limit file can hold at StartTime: none yet, or the
\* record updateRateLimitFromResponse saved with the last of n answers
ServerRemainings == {-1, 0, WarnBelow - 1, WarnBelow, DefaultLimit + 1}
ServerLimits     == {-1, DefaultLimit \div 2}
ServerResetAts   == {NoNum, NumOf(StartTime + BaseDelay)}
LastUpdates      == {StartTime - RateWindow, StartTime - RateWindow + 1, StartTime}
LocalCounts      == {1, DefaultLimit - WarnBelow, DefaultLimit - WarnBelow + 1,
                     DefaultLimit, MaxLocalCalls}

RateLimitRecords ==
  {EmptyRateLimit} \cup
  { [ serverRemaining |-> r, serverLimit |-> l, serverResetAt |-> a,
      lastServerUpdate |-> u, localCalls |-> [k \in 1..n |-> u] ] :
      r \in ServerRemainings, l \in ServerLimits, a \in ServerResetAts,
      u \in LastUpdates, n \in LocalCounts }

\* values of X-RateLimit-Reset: none, 0, 30, 1.7e9, 1e10, 1e10 + 1, 1.7e12
ResetValues ==
  {NoNum, NumOf(0), NumOf(30), Num(1700, 0), EpochThreshold, Num(10000, 1),
   Num(1700000, 0)}

\* the rate-limit headers of a response
ResponseHeaders ==
  { [remaining |-> r, limit |-> -1, reset |-> v, retryAfter |-> a] :
      r \in {-1, WarnBelow}, v \in ResetValues, a \in {-1, 2} }

\* data.localCalls.push / data.localCalls.length on a record without localCalls
TypeError ==
  [name |-> "TypeError", status |-> -1, retryAfter |-> -1,
   message |-> "Cannot read properties of undefined"]

\* upstream status values: canonical, synonyms, other spellings of them,
\* unknown ones and none
StatusInputs ==
  { <<>>,
    <<"P","E","N","D","I","N","G">>, <<"E","N","_","R","O","U","T","E">>,
    <<"A","R","R","I","V","E","D">>, <<"D","E","L","I","V","E","R","E","D">>,
    <<"D","I","S","C","A","R","D","E","D">>, <<"N","O","T","_","F","O","U","N","D">>,
    <<"I","N","P","R","O","G","R","E","S","S">>,
    <<"I","N","_","P","R","O","G","R","E","S","S">>,
    <<"I","N","_","T","R","A","N","S","I","T">>,
    <<"D","I","S","C","H","A","R","G","E","D">>,
    <<"i","n"," ","t","r","a","n","s","i","t">>, <<"e","n","-","r","o","u","t","e">>,
    <<"N","o","t","1","F","o","u","n","d">>, <<"d","i","s","c","h","a","r","g","e","d">>,
    <<"H","E","L","D">>, <<"e","n","r","o","u","t","e">>, <<"_">> }

\* the payloads handed to mapToShipment: each of id, requestId, status,
\* shippingStatus, createdAt, created_at, discardedAt, discarded_at given or not
MapperPayloads ==
  { [ RawShipment(id, st, ca, dd) EXCEPT
        !.requestId = rq, !.request_id = rs, !.shippingStatus = ss,
        !.created_at = cs, !.discardedAt = dc ] :
      id \in {"", "1"}, rq \in {"", "7"}, rs \in {"", "7"},
      st \in StatusInputs, ss \in {<<>>, <<"A","R","R","I","V","E","D">>},
      ca \in {0, 1}, cs \in {0, 2}, dc \in {0, 3}, dd \in {0, 4} }

\* what the remote can answer the GET of getSharingLink with
LinkExchanges ==
  IdExchanges \cup {Response(200, NoHeaders, b) : b \in {RawNested, RawMixed}}

\* failures fetchWithRetry retries: 429 without Retry-After, with Retry-After
\* 0 and with Retry-After 2, a timeout, and a 500
RetriedErrors ==
  { RateLimitError(-1), RateLimitError(0), RateLimitError(2),
    PlainError(TimeoutMessage), ApiError(500) }

InitPure ==
  /\ cache = <<>>
  /\ cacheDisabled = FALSE
  /\ storeDisabled = FALSE
  /\ now = StartTime
  /\ result = NoResult
  /\ opsDone = 0
  /\ createsDone = 0
  /\ \/ /\ pc = "apply"
        /\ rateLimit = EmptyRateLimit
        /\ \/ \E shipment \in Shipments : inv = Applying("getCacheTTL", shipment)
           \/ \E shipments \in CandidateLists :
                inv = Applying("selectBestMatch", shipments)
     \/ /\ pc = "apply"
        /\ \/ \E a \in ServerResetAts :
                rateLimit = [EmptyRateLimit EXCEPT !.serverResetAt = a]
           \/ rateLimit = IncompleteRecord
        /\ \E h \in ResponseHeaders :
             inv = Applying("updateRateLimitFromResponse", h)
     \/ /\ pc = "apply"
        /\ rateLimit = EmptyRateLimit
        /\ \E raw \in MapperPayloads : inv = Applying("mapToShipment", raw)
     \/ /\ pc = "apply"
        /\ rateLimit = EmptyRateLimit
        /\ \E id \in Ids, x \in LinkExchanges :
             inv = [Applying("sharingLinkFetch", x) EXCEPT !.ref = id]
     \/ /\ pc = "apply"
        /\ rateLimit = EmptyRateLimit
        /\ \E e \in RetriedErrors, attempt \in 0..(MaxRetries - 1), jitter \in Jitters :
             inv = [Applying("retryDelay", jitter) EXCEPT !.lastError = e,
                                                         !.attempt = attempt]
     \/ /\ pc = "idle"
        /\ inv = IdleInv
        /\ rateLimit \in RateLimitRecords \cup {IncompleteRecord}

GetRateLimitStatus ==
  /\ CanStart
  /\ inv' = NewInv("getRateLimitStatus", "", <<>>, "")
  /\ result' = IF HasLocalCalls(rateLimit)
               THEN Return(RateLimitStatus(rateLimit, now))
               ELSE Throw(TypeError)
  /\ pc' = "done"
  /\ opsDone' = opsDone + 1
  /\ UNCHANGED <<cache, cacheDisabled, storeDisabled, rateLimit, now, createsDone>>

ApplyGetCacheTTL ==
  /\ pc = "apply"
  /\ inv.op = "getCacheTTL"
  /\ pc' = "done"
  /\ result' = Return(GetCacheTTL(inv.arg))
  /\ UNCHANGED <<cache, cacheDisabled, storeDisabled, rateLimit, now, inv, opsDone,
                 createsDone>>

ApplySelectBestMatch ==
  /\ pc = "apply"
  /\ inv.op = "selectBestMatch"
  /\ pc' = "done"
  /\ result' = Return(SelectBestMatch(inv.arg))
  /\ UNCHANGED <<cache, cacheDisabled, storeDisabled, rateLimit, now, inv, opsDone,
                 createsDone>>

ApplyUpdateRateLimitFromResponse ==
  /\ pc = "apply"
  /\ inv.op = "updateRateLimitFromResponse"
  /\ pc' = "done"
  /\ IF HasLocalCalls(rateLimit)
     THEN /\ rateLimit' = UpdateRateLimitFromResponse(rateLimit, inv.arg, now)
          /\ result' = result
     ELSE /\ rateLimit' = rateLimit
          /\ result' = Throw(TypeError)
  /\ UNCHANGED <<cache, cacheDisabled, storeDisabled, now, inv, opsDone, createsDone>>

ApplyMapToShipment ==
  /\ pc = "apply"
  /\ inv.op = "mapToShipment"
  /\ pc' = "done"
  /\ result' = Return(MapToShipment(inv.arg, now))
  /\ UNCHANGED <<cache, cacheDisabled, storeDisabled, rateLimit, now, inv, opsDone,
                 createsDone>>

\* the part of getSharingLink after the cache lookup, without the store
ApplySharingLinkFetch ==
  /\ pc = "apply"
  /\ inv.op = "sharingLinkFetch"
  /\ pc' = "done"
  /\ LET out == SharingLinkFetch(inv.ref, inv.arg)
     IN result' = IF out.threw THEN Throw(out.error) ELSE Return(out.value)
  /\ rateLimit' = RequestRateLimit(rateLimit, inv.arg, now)
  /\ UNCHANGED <<cache, cacheDisabled, storeDisabled, now, inv, opsDone, createsDone>>

\* the remaining count the server reports at time t: a different one at each
\* clock reading, and none that the local estimate can take
ServerRemainingAt(t) == WarnBelow + (t - StartTime) \div ClockStep

\* the headers a response can carry at time t: none, or the remaining count
HeadersAt(t) ==
  {NoHeaders, [NoHeaders EXCEPT !.remaining = ServerRemainingAt(t)]}

\* a response is handled by updateRateLimitFromResponse, one per clock reading
HandleResponse(h) ==
  /\ pc \in {"idle", "done"}
  /\ rateLimit.lastServerUpdate # now
  /\ rateLimit' = UpdateRateLimitFromResponse(rateLimit, h, now)
  /\ UNCHANGED <<cache, cacheDisabled, storeDisabled, now, pc, inv, result, opsDone,
                 createsDone>>

\* responses, the passing of time and status calls
NextStatus ==
  \/ \E h \in HeadersAt(now) : HandleResponse(h)
  \/ Tick
  \/ GetRateLimitStatus

SpecStatus == Init /\ [][NextStatus]_vars

\* the delay fetchWithRetry computes after the failure lastError of attempt
ApplyRetryDelay ==
  /\ pc = "apply"
  /\ inv.op = "retryDelay"
  /\ pc' = "done"
  /\ result' = Return(RetryDelay(inv.lastError, inv.attempt, inv.arg))
  /\ UNCHANGED <<cache, cacheDisabled, storeDisabled, rateLimit, now, inv, opsDone,
                 createsDone>>

NextPure ==
  \/ ApplyGetCacheTTL
  \/ ApplySelectBestMatch
  \/ ApplyUpdateRateLimitFromResponse
  \/ ApplySharingLinkFetch
  \/ ApplyMapToShipment
  \/ ApplyRetryDelay
  \/ GetRateLimitStatus

SpecPure == InitPure /\ [][NextPure]_vars

\* ------------------------------------------------------------------------
\* Properties of the create flow and the retry wrapper
\* ------------------------------------------------------------------------
\* the steps of a running createShipment: each pending call is answered or
\* times out, and each sleep ends
CreateStep ==
  \/ \E x \in PostExchanges : PostThrows(x)
  \/ \E x \in PostExchanges : PostCreated(x)
  \/ \E x \in PostExchanges : PostCreatedPatch(x)
  \/ \E x \in PatchExchanges : PatchResponds(x)
  \/ \E x \in ConflictExchanges, l \in Listings : PostConflictCached(x, l)
  \/ \E x \in ConflictExchanges, l \in Listings : PostConflictFetch(x, l)
  \/ \E x \in PostExchanges : PostOtherStatus(x)
  \/ \E x \in GetExchanges(Listings) : GetResponds(x)
  \/ \E j \in Jitters : Sleep(j)

\* createShipment alone, its pending calls and sleeps always coming to an end
NextLive ==
  \/ \E in \in CreateInputs : CreateFromCache(in)
  \/ \E in \in CreateInputs : CreateStart(in)
  \/ CreateStep

SpecLive == Init /\ [][NextLive]_vars /\ WF_vars(CreateStep)

\* createShipment against a server that may have processed a request whose
\* response was lost
NextCredit ==
  \/ Next
  \/ \E x \in NoResponses : PostLost(x)

SpecCredit == Init /\ [][NextCredit]_vars

InCreate == inv.op = "createShipment"
Returned == pc = "done" /\ result.kind = "return"
Threw    == pc = "done" /\ result.kind = "throw"

\* this step invokes the public operation op
Invoked(op) == opsDone' = opsDone + 1 /\ inv'.op = op

\* the last call of the running attempt was answered with a status outside 2xx,
\* or not answered
LastFailed == inv.last.method # "" /\ ~ResponseOk(inv.last.status)

\* C1: createShipment invoked while the cache holds, under the key of the
\* request, a shipment that is not discarded returns {that shipment, source
\* "cache", creditUsed false} in the same step, issues no POST, GET or PATCH
\* and leaves the rate-limit record as it was.
C1_CacheHitMakesNoRemoteCall ==
  [][ \A in \in CreateInputs :
        LET key == BuildCacheKey(in)
        IN ( /\ Invoked("createShipment")
             /\ inv'.kind = in.kind /\ inv'.ref = in.ref
             /\ ~cacheDisabled
             /\ key \in DOMAIN cache
             /\ cache[key].data # NullData
             /\ cache[key].data.discarded_at = 0 )
           => ( /\ pc' = "done"
                /\ result' = Return([shipment |-> cache[key].data,
                                     source |-> "cache", creditUsed |-> FALSE,
                                     warning |-> ""])
                /\ inv'.nPost = 0 /\ inv'.nGet = 0 /\ inv'.nPatch = 0
                /\ rateLimit' = rateLimit
                /\ cache' = cache ) ]_vars

C1_Witness ==
  /\ InCreate /\ Returned
  /\ result.value.source = "cache"
  /\ result.value.shipment.discarded_at = 0
  /\ inv.nPost = 0
  /\ rateLimit.localCalls # <<>>

\* the attempt ended without a failed call after a 409 while the remote lists
\* something for the reference
ConflictWithListing ==
  /\ InCreate
  /\ inv.conflict
  /\ inv.remoteBest # NullData
  /\ pc \in {"done", "sleep"}
  /\ \/ inv.last.method = "POST" /\ inv.last.status = 409
     \/ inv.last.method = "GET" /\ inv.last.status = 200

\* C2: whatever the cache held before (as long as step 1 did not answer from
\* it), a POST answered 409 while the remote lists at least one shipment for
\* the reference makes createShipment return {source "existing", creditUsed
\* false} with the best match of that listing, and that shipment is stored
\* under the create key.
C2_ConflictReturnsBestMatch ==
  ConflictWithListing =>
    /\ Returned
    /\ result.value = [shipment |-> inv.remoteBest, source |-> "existing",
                       creditUsed |-> FALSE, warning |-> ""]
    /\ CreateKey \in DOMAIN cache
    /\ cache[CreateKey].data = inv.remoteBest

\* C3: when the POST was answered 200/201 and a PATCH of the custom reference
\* was issued, a PATCH that is rate limited, out of credits, unanswered or
\* answered outside 2xx never fails createShipment: it returns {the created
\* shipment, source "created", creditUsed true, a non-empty warning} and the
\* shipment is stored under the create key.
C3_PatchFailureOnlyWarns ==
  (InCreate /\ inv.last.method = "PATCH" /\ LastFailed) =>
    /\ Returned
    /\ result.value.source = "created"
    /\ result.value.creditUsed
    /\ result.value.warning # ""
    /\ result.value.shipment = inv.shipment
    /\ CreateKey \in DOMAIN cache
    /\ cache[CreateKey].data = inv.shipment

C3_Witness ==
  /\ InCreate /\ Returned
  /\ inv.last.method = "PATCH" /\ inv.last.status = 402
  /\ result.value.source = "created"
  /\ result.value.warning # ""

\* C4: every result createShipment returns has source "created", "existing"
\* or "cache", and creditUsed is true exactly when the source is "created".
C4_CreditUsedIffCreated ==
  (InCreate /\ Returned) =>
    /\ result.value.source \in {"created", "existing", "cache"}
    /\ result.value.creditUsed <=> (result.value.source = "created")

C4_Witness ==
  /\ InCreate /\ Returned
  /\ result.value.source = "existing"
  /\ ~result.value.creditUsed

\* C5: a POST answered 402 ends createShipment at once with
\* InsufficientCreditsError: no sleep and no further attempt follow.
C5_PaymentRequiredNotRetried ==
  (InCreate /\ inv.last.method = "POST" /\ inv.last.status = 402) =>
    /\ pc = "done"
    /\ result = Throw(InsufficientCreditsError)

\* C6: a 402 answer to any call of the create flow (POST, fetch-existing GET,
\* PATCH) makes createShipment raise InsufficientCreditsError.
C6_PaymentRequiredAlwaysRaised ==
  (InCreate /\ pc = "done" /\ inv.last.status = 402) =>
    result = Throw(InsufficientCreditsError)

\* the fetch after a 409 yielded no shipment
FetchedNothing ==
  /\ InCreate
  /\ inv.conflict
  /\ inv.last.method = "GET"
  /\ \/ inv.last.status = 404
     \/ inv.last.status = 200 /\ inv.remoteBest = NullData

\* C7: a POST answered 409 whose fetch of the existing shipment yields nothing
\* is fatal: createShipment throws in that step, without sleeping or posting
\* again, and the step leaves the cache entry of the create key as it was.
C7_ConflictWithoutShipmentIsFatal ==
  [][ (pc = "get" /\ FetchedNothing') =>
        /\ pc' = "done"
        /\ result'.kind = "throw"
        /\ \/ BuildCacheKey(inv') \notin DOMAIN cache'
           \/ /\ BuildCacheKey(inv') \in DOMAIN cache
              /\ cache'[BuildCacheKey(inv')] = cache[BuildCacheKey(inv')] ]_vars

\* the operation wrapped by the retry wrapper failed on a 4xx answer other
\* than 429: a POST answered 4xx (409 is handled), or the fetch-existing GET
\* answered 4xx (404 is handled)
ClientErrorAnswer ==
  /\ InCreate
  /\ inv.last.status >= 400 /\ inv.last.status < 500 /\ inv.last.status # 429
  /\ \/ inv.last.method = "POST" /\ inv.last.status # 409
     \/ inv.last.method = "GET" /\ inv.last.status # 404

\* C8: in the retry wrapper an error that stands for a 4xx answer other than
\* 429 is fatal: the operation is attempted once, no delay is waited and the
\* error is thrown as it is.
C8_ClientErrorsAreFatal ==
  ClientErrorAnswer =>
    /\ Threw
    /\ result.error = RequestError(Response(inv.last.status, NoHeaders, <<>>))
         \/ result.error = ApiError(inv.last.status)

\* the error the last call of the running attempt stands for
LastErrorName ==
  IF inv.last.status = -1 THEN "Error"
  ELSE IF inv.last.status = 429 THEN "RateLimitError"
  ELSE IF inv.last.status = 402 THEN "InsufficientCreditsError"
  ELSE IF inv.last.method = "POST" /\ inv.last.status = 409 THEN "Error"
  ELSE IF inv.last.method = "GET" /\ inv.last.status \in {200, 404} THEN "Error"
  ELSE "ApiError"

\* C9: for retryable failures the wrapper makes at most MaxRetries + 1
\* attempts and waits at most MaxRetries delays, one before each attempt but
\* the first; it returns as soon as an attempt succeeds, and when the attempts
\* are used up it throws the error of the last attempt.
C9_RetryBudget ==
  InCreate =>
    /\ inv.nPost <= MaxRetries + 1
    /\ inv.nSleep <= MaxRetries
    /\ inv.nPost > 0 => (inv.nPost = inv.attempt + 1 /\ inv.nSleep = inv.attempt)
    /\ pc = "sleep" => inv.attempt < MaxRetries
    /\ Threw =>
         /\ result.error = inv.lastError
         /\ result.error.name = LastErrorName
         /\ result.error.name = "ApiError" => result.error.status = inv.last.status
         /\ result.error.name = "RateLimitError" =>
              result.error.retryAfter = inv.last.retryAfter

\* [500, 500, 200]: the third attempt succeeds after two delays
C9_Witness ==
  /\ InCreate /\ Returned
  /\ inv.nPost = 3 /\ inv.nSleep = 2
  /\ inv.lastError = ApiError(500)
  /\ result.value.source = "created"

\* the error a 429 answer or a request timeout surfaces as
RateLimitOrTimeout(e) ==
  e.name = "RateLimitError" \/ e = PlainError(TimeoutMessage)

\* C10: every public operation that calls the remote retries a 429 answer and
\* a request timeout: when it throws the rate-limit or timeout error it has
\* issued MaxRetries + 1 calls.
C10_EveryOperationRetries ==
  (Threw /\ inv.op # "" /\ RateLimitOrTimeout(result.error)) =>
    inv.nPost + inv.nGet = MaxRetries + 1

\* ------------------------------------------------------------------------
\* Properties of the read operations and the cache
\* ------------------------------------------------------------------------
ReadOps == {"trackBy", "getShipmentById", "listShipments", "searchByReference",
            "getVesselPosition", "getSharingLink"}

\* C11: a read operation whose GET is answered 404 returns null or an empty
\* list; it never throws.
C11_NotFoundIsAbsence ==
  (pc = "done" /\ inv.op \in ReadOps /\ inv.last.method = "GET"
     /\ inv.last.status = 404) =>
    /\ result.kind = "return"
    /\ result.value \in {NullData, <<>>}

\* the shipment createShipment returned was carried by an answer to a call of
\* this invocation: the POST (200/201, then possibly a PATCH) or the
\* fetch-existing GET
FromRemoteAnswer ==
  \/ inv.last.method = "POST" /\ inv.last.status \in {200, 201}
  \/ inv.last.method = "PATCH"
  \/ inv.last.method = "GET" /\ inv.last.status = 200

\* C12: a shipment with a discarded timestamp that createShipment returns was
\* carried by a remote answer of that invocation, on every path; it is never
\* taken from the cache.
C12_DiscardedNeverReused ==
  (InCreate /\ Returned /\ result.value.shipment # NullData
     /\ result.value.shipment.discarded_at # 0) =>
    FromRemoteAnswer

\* C13: createShipment and the trackBy operation of the same kind address one
\* cache entry for references that differ only in letter case: a trackBy
\* invoked while createShipment's entry for such a reference is stored returns
\* it without a GET, and createShipment invoked while trackBy's entry holds a
\* shipment that is not discarded returns it from the cache without a POST.
C13_KeysIgnoreCase ==
  [][ \A in \in CreateInputs :
        /\ ( /\ Invoked("trackBy")
             /\ inv'.kind = in.kind
             /\ ToUpperCase(inv'.ref) = ToUpperCase(in.ref)
             /\ ~cacheDisabled
             /\ BuildCacheKey(in) \in DOMAIN cache )
           => ( /\ inv'.nGet = 0
                /\ result' = Return(cache[BuildCacheKey(in)].data) )
        /\ ( /\ Invoked("createShipment")
             /\ inv'.kind = in.kind /\ inv'.ref = in.ref
             /\ ~cacheDisabled
             /\ TrackCacheKey(in.kind, in.ref) \in DOMAIN cache
             /\ cache[TrackCacheKey(in.kind, in.ref)].data # NullData
             /\ cache[TrackCacheKey(in.kind, in.ref)].data.discarded_at = 0 )
           => ( /\ inv'.nPost = 0
                /\ result' = Return(CachedResult(
                                 cache[TrackCacheKey(in.kind, in.ref)].data)) )
    ]_vars

ById == {"getShipmentById", "getVesselPosition", "getSharingLink",
         "refresh-shipment"}

\* the exchanges the call of a read operation can be answered with
ExchangesOf(op) == IF op \in ById THEN IdExchanges ELSE GetExchanges(Listings)

\* what the producer of a read operation makes of the exchange x
ProducerOutcome(op, param, x, t) ==
  CASE op = "trackBy"           -> TrackFetch(x, t)
    [] op = "getShipmentById"   -> ShipmentByIdFetch(x, t)
    [] op = "refresh-shipment"  -> ShipmentByIdFetch(x, t)
    [] op = "listShipments"     -> ListFetch(x, t)
    [] op = "searchByReference" -> SearchFetch(x, t)
    [] op = "getVesselPosition" -> PositionFetch(x, t)
    [] op = "getSharingLink"    -> SharingLinkFetch(param, x)

\* the operation issued one GET and its outcome is what its producer makes of
\* the answer
AnsweredByRemote(i, r, t) ==
  /\ i.nGet = 1
  /\ \E x \in ExchangesOf(i.op) :
       /\ i.last = CallOf("GET", x)
       /\ LET out == ProducerOutcome(i.op, i.ref, x, t)
          IN r = IF out.threw THEN Throw(out.error) ELSE Return(out.value)

\* C14: a read operation invoked while the cache is disabled issues its GET
\* and returns or throws what its producer makes of the answer, whatever the
\* cache holds; the refresh-shipment command does so from every state.
C14_DisabledCacheAlwaysFetches ==
  [][ /\ (cacheDisabled /\ opsDone' = opsDone + 1 /\ inv'.op \in ReadOps)
           => AnsweredByRemote(inv', result', now)
      /\ Invoked("refresh-shipment") => AnsweredByRemote(inv', result', now)
    ]_vars

\* a sharing link is cached, and getSharingLink, invoked with the cache
\* disabled, returned the null of an answer without token
C14_Witness ==
  /\ cacheDisabled
  /\ pc = "done" /\ inv.op = "getSharingLink" /\ inv.nGet = 1
  /\ CreateCacheKey("sharing-link", inv.ref) \in DOMAIN cache
  /\ result = Return(NullData)

\* ------------------------------------------------------------------------
\* Properties of the private functions
\* ------------------------------------------------------------------------
Applied(f) == pc = "done" /\ inv.op = f

TTLOf(status) == GetCacheTTL([status |-> status])

\* C15 as stated: the TTL of an ARRIVED shipment is 2 times, and the TTL of a
\* DELIVERED shipment 6 times, the TTL of a PENDING one.
C15_TTLRatiosAsStated ==
  Applied("getCacheTTL") =>
    /\ inv.arg.status = "ARRIVED" => result.value = 2 * TTLOf("PENDING")
    /\ inv.arg.status = "DELIVERED" => result.value = 6 * TTLOf("PENDING")

\* C15, amended: the TTL of an ARRIVED shipment is 2 times, and the TTL of a
\* DELIVERED shipment 12 times (24 h against 2 h), the TTL of a PENDING one.
C15_TTLRatios ==
  Applied("getCacheTTL") =>
    /\ inv.arg.status = "ARRIVED" => result.value = 2 * TTLOf("PENDING")
    /\ inv.arg.status = "DELIVERED" => result.value = 12 * TTLOf("PENDING")

C15_Witness ==
  /\ Applied("getCacheTTL")
  /\ inv.arg.status = "DELIVERED"
  /\ result.value = TTL_DAY


\* the operations of the keys a single Shipment is cached under
ShipmentKeyOps ==
  {"shipment:id", "shipment:bl", "shipment:container", "shipment:booking"}

\* C16: every Shipment in the cache under a key of createShipment,
\* getShipmentById or trackByBL / trackByContainer / trackByBooking was stored
\* with the TTL of its status.
C16_StoredWithStatusTTL ==
  \A key \in DOMAIN cache :
    (key[1] \in ShipmentKeyOps /\ cache[key].data # NullData) =>
      cache[key].ttl = GetCacheTTL(cache[key].data)


\* the order the selection is specified by: status priority, then the more
\* recent creation, then the earlier position
ClaimedRank(st) ==
  CASE st = "EN_ROUTE"  -> 0
    [] st = "PENDING"   -> 1
    [] st = "ARRIVED"   -> 2
    [] st = "DELIVERED" -> 3
    [] st = "DISCARDED" -> 4
    [] OTHER            -> 5

Precedes(list, i, j) ==
  LET a == list[i]
      b == list[j]
  IN \/ ClaimedRank(a.status) < ClaimedRank(b.status)
     \/ /\ ClaimedRank(a.status) = ClaimedRank(b.status)
        /\ \/ a.created_at > b.created_at
           \/ a.created_at = b.created_at /\ i < j

Selected == Applied("selectBestMatch")

Live(list) == {i \in 1..Len(list) : list[i].discarded_at = 0}

\* C17: for a listing with at least one non-discarded shipment the selection
\* returns a non-discarded member of the listing that no non-discarded member
\* precedes in the order (status priority, more recent creation, position).
C17_FirstNonDiscarded ==
  (Selected /\ Live(inv.arg) # {}) =>
    \E i \in Live(inv.arg) :
      /\ result = Return(inv.arg[i])
      /\ \A j \in Live(inv.arg) : ~Precedes(inv.arg, j, i)

\* two live candidates and a discarded one of a better status; the live one
\* created later is second in the listing and is selected
C17_Witness ==
  /\ Selected
  /\ Len(inv.arg) = 3
  /\ Live(inv.arg) = {2, 3}
  /\ ClaimedRank(inv.arg[1].status) < ClaimedRank(inv.arg[2].status)
  /\ inv.arg[2].status = inv.arg[3].status
  /\ inv.arg[3].created_at > inv.arg[2].created_at
  /\ result = Return(inv.arg[3])


Reordered(list, p) == [i \in 1..Len(list) |-> list[p[i]]]

\* C18: for a non-empty listing the selection returns a shipment, and for
\* every reordering of the listing it returns a shipment of the same identifier.
C18_NeverNullAndOrderFree ==
  (Selected /\ Len(inv.arg) > 0) =>
    /\ result.kind = "return"
    /\ result.value # NullData
    /\ \A p \in Permutations(1..Len(inv.arg)) :
         SelectBestMatch(Reordered(inv.arg, p)).id = result.value.id

\* a precedes b by status priority, then by the more recent creation
Better(a, b) ==
  \/ ClaimedRank(a.status) < ClaimedRank(b.status)
  \/ /\ ClaimedRank(a.status) = ClaimedRank(b.status)
     /\ a.created_at > b.created_at

\* C19: when every candidate of a listing of two or more is discarded, the
\* selection returns a candidate that none of the candidates precedes by
\* status priority and more recent creation.
C19_AllDiscardedHeadOfOrder ==
  (Selected /\ Len(inv.arg) >= 2 /\ Live(inv.arg) = {}) =>
    \E i \in 1..Len(inv.arg) :
      /\ result = Return(inv.arg[i])
      /\ \A j \in 1..Len(inv.arg) : ~Better(inv.arg[j], inv.arg[i])


\* ------------------------------------------------------------------------
\* Properties of the rate-limit status
\* ------------------------------------------------------------------------
\* C20: for a stored record with its call log, getRateLimitStatus returns
\* the server's numbers (remaining as stored,
\* limit 100 when none is stored) when the last answer is less than 60 s old
\* and a remaining number is stored, and otherwise max(0, 100 - number of
\* local calls) with limit 100, which lies in 0..100; either way there is a
\* warning exactly when the remaining number is below 20.
C20_RateLimitStatus ==
  (Applied("getRateLimitStatus") /\ HasLocalCalls(rateLimit)) =>
    LET status == result.value
        recent == /\ rateLimit.lastServerUpdate # -1
                  /\ now - rateLimit.lastServerUpdate < 60000
        known  == rateLimit.serverRemaining # -1
        calls  == Len(rateLimit.localCalls)
    IN /\ (recent /\ known) =>
            /\ status.remaining = rateLimit.serverRemaining
            /\ status.limit = IF rateLimit.serverLimit = -1 THEN 100
                              ELSE rateLimit.serverLimit
       /\ ~(recent /\ known) =>
            /\ status.remaining = (IF calls >= 100 THEN 0 ELSE 100 - calls)
            /\ status.limit = 100
            /\ status.remaining \in 0..100
       /\ status.warning # "" <=> status.remaining < 20

\* more than 100 local calls and no remaining number from the server: the
\* estimate is 0, with a warning
C20_Witness ==
  /\ Applied("getRateLimitStatus")
  /\ HasLocalCalls(rateLimit)
  /\ Len(rateLimit.localCalls) > 100
  /\ rateLimit.serverRemaining = -1
  /\ result.value.remaining = 0
  /\ result.value.warning = "Approaching rate limit (estimated)"


\* ------------------------------------------------------------------------
\* Properties of the rate-limit record
\* ------------------------------------------------------------------------
\* this step handles the outcome of a remote call
AnswersCall ==
  /\ inv'.last # NoCall
  /\ pc \in {"post", "patch", "get"} \/ opsDone' = opsDone + 1

LogOf(data) == {data.localCalls[k] : k \in 1..Len(data.localCalls)}

\* C21: a step that handles a response of any status leaves a call log that
\* holds the time of the response and no time 60 s old or older; a step that
\* handles a call without response, or no call, leaves the record unchanged.
C21_LogUpdatedPerResponse ==
  [][ IF AnswersCall /\ inv'.last.status # -1
      THEN /\ now \in LogOf(rateLimit')
           /\ \A t \in LogOf(rateLimit') : t > now - 60000
      ELSE rateLimit' = rateLimit ]_vars

\* the second POST of a createShipment was answered 429 a sleep after the
\* first: the log holds the time of the second only
C21_Witness ==
  /\ InCreate
  /\ inv.nPost = 2
  /\ inv.last.method = "POST" /\ inv.last.status = 429
  /\ rateLimit.localCalls = <<now>>
  /\ rateLimit.lastServerUpdate = now


\* C22: for a reset value v (X-RateLimit-Reset or, without it, Retry-After)
\* the recorded reset instant is v seconds after the epoch when v is above
\* 1e10, and otherwise the time the response is handled plus v seconds.
C22_ResetInstant ==
  (Applied("updateRateLimitFromResponse") /\ HasLocalCalls(rateLimit)) =>
    LET v == IF inv.arg.reset # NoNum THEN inv.arg.reset
             ELSE IF inv.arg.retryAfter # -1 THEN NumOf(inv.arg.retryAfter)
             ELSE NoNum
    IN v # NoNum =>
         rateLimit.serverResetAt =
           IF NumAbove(v, Num(10000, 0)) THEN NumTimes1000(v)
           ELSE NumPlus(NumOf(now), NumTimes1000(v))


\* C23: whatever the rate-limit file holds, handling a response does not
\* raise and getRateLimitStatus returns a status.
C23_RecordFailuresSwallowed ==
  /\ Applied("updateRateLimitFromResponse") => result.kind # "throw"
  /\ Applied("getRateLimitStatus") => result.kind = "return"


\* ------------------------------------------------------------------------
\* Properties of getSharingLink
\* ------------------------------------------------------------------------
LinkKey(id) == CreateCacheKey("sharing-link", id)

\* the store holds a link for id and is switched on
LinkCached(id) ==
  /\ ~storeDisabled
  /\ LinkKey(id) \in DOMAIN cache
  /\ cache[LinkKey(id)].data # NullData

\* C24: a call of getSharingLink(id) that returns null leaves no entry for id
\* that holds null, so a call that finds no link in the store issues a GET;
\* a link that is returned is in the store afterwards, and a call that finds
\* a link in the store returns it without a GET.
C24_NullLinkNotCached ==
  [][ \A id \in Ids :
        (Invoked("getSharingLink") /\ inv'.ref = id) =>
          /\ IF LinkCached(id)
             THEN /\ inv'.nGet = 0
                  /\ result' = Return(cache[LinkKey(id)].data)
             ELSE inv'.nGet = 1
          /\ (result'.kind = "return" /\ result'.value = NullData) =>
               (LinkKey(id) \in DOMAIN cache' => cache'[LinkKey(id)].data # NullData)
          /\ (result'.kind = "return" /\ result'.value # NullData) =>
               /\ LinkKey(id) \in DOMAIN cache'
               /\ cache'[LinkKey(id)].data = result'.value ]_vars

\* the second operation is a getSharingLink that found no link in the store,
\* issued its GET and returns the link, now stored
C24_Witness ==
  /\ Applied("getSharingLink")
  /\ opsDone = 2
  /\ inv.nGet = 1
  /\ Returned /\ result.value # NullData
  /\ cache[LinkKey(inv.ref)].data = result.value


\* the token a payload carries in either shape: nested under shipment, or at
\* the top level; "" when in neither
TokenInEitherShape(data) ==
  IF data.shipment # NullData /\ data.shipment.tokensMap # ""
  THEN data.shipment.tokensMap
  ELSE data.tokensMap

\* C25: for a 2xx response whose payload carries a map token in either shape
\* getSharingLink(id) returns the url
\* https://map.shipsgo.com/ocean/shipments/{id}?token={mapToken}; it returns
\* null exactly when the response is 404 or carries no token in either shape.
C25_LinkFromEitherShape ==
  Applied("sharingLinkFetch") =>
    LET x     == inv.arg
        ok    == x.responded /\ x.status >= 200 /\ x.status <= 299
        token == IF ok THEN TokenInEitherShape(x.body) ELSE ""
    IN /\ (ok /\ token # "") =>
            /\ result.kind = "return"
            /\ result.value # NullData
            /\ result.value.url =
                 "https://map.shipsgo.com/ocean/shipments/" \o inv.ref
                   \o "?token=" \o token
       /\ (result.kind = "return" /\ result.value = NullData) <=>
            (x.responded /\ (x.status = 404 \/ (ok /\ token = "")))


\* ------------------------------------------------------------------------
\* Properties of the mapper
\* ------------------------------------------------------------------------
Mapped == Applied("mapToShipment")

ShipmentStatuses ==
  {"PENDING", "EN_ROUTE", "ARRIVED", "DELIVERED", "DISCARDED", "NOT_FOUND"}

\* the spelling of each canonical status
SpellingOf ==
  [ PENDING   |-> <<"P","E","N","D","I","N","G">>,
    EN_ROUTE  |-> <<"E","N","_","R","O","U","T","E">>,
    ARRIVED   |-> <<"A","R","R","I","V","E","D">>,
    DELIVERED |-> <<"D","E","L","I","V","E","R","E","D">>,
    DISCARDED |-> <<"D","I","S","C","A","R","D","E","D">>,
    NOT_FOUND |-> <<"N","O","T","_","F","O","U","N","D">> ]

\* upper-cased, every character that is no letter and no underscore replaced
\* by an underscore
Uppercased(s) ==
  [i \in 1..Len(s) |->
     IF s[i] \in UpperSet THEN s[i]
     ELSE IF s[i] \in LowerSet
          THEN UpperLetters[CHOOSE k \in 1..26 : LowerLetters[k] = s[i]]
          ELSE "_"]

EnRouteSynonyms ==
  { <<"I","N","P","R","O","G","R","E","S","S">>,
    <<"I","N","_","P","R","O","G","R","E","S","S">>,
    <<"I","N","_","T","R","A","N","S","I","T">> }

\* the upstream status of a payload: status, or shippingStatus without it
UpstreamStatus(raw) == IF raw.status # <<>> THEN raw.status ELSE raw.shippingStatus

\* C26: the status of a mapped Shipment is one of the six; with the upstream
\* value upper-cased and its other characters turned to underscores, the
\* synonyms INPROGRESS, IN_PROGRESS, IN_TRANSIT give EN_ROUTE, DISCHARGED gives
\* ARRIVED, a canonical value gives itself, anything else or nothing PENDING.
C26_StatusNormalized ==
  Mapped =>
    LET n  == Uppercased(UpstreamStatus(inv.arg))
        st == result.value.status
    IN /\ st \in ShipmentStatuses
       /\ IF n \in EnRouteSynonyms THEN st = "EN_ROUTE"
          ELSE IF n = <<"D","I","S","C","H","A","R","G","E","D">> THEN st = "ARRIVED"
          ELSE IF \E c \in ShipmentStatuses : SpellingOf[c] = n
               THEN SpellingOf[st] = n
               ELSE st = "PENDING"

\* "in transit", with a space and in lower case, maps to EN_ROUTE
C26_Witness ==
  /\ Mapped
  /\ inv.arg.status = <<"i","n"," ","t","r","a","n","s","i","t">>
  /\ result.value.status = "EN_ROUTE"


\* the payload is given under camelCase names only
CamelOnly(raw) == raw.created_at = 0 /\ raw.discarded_at = 0 /\ raw.request_id = ""

\* the same values under the snake_case names
InSnakeCase(raw) ==
  [raw EXCEPT !.createdAt = 0,   !.created_at = raw.createdAt,
              !.discardedAt = 0, !.discarded_at = raw.discardedAt,
              !.requestId = "",  !.request_id = raw.requestId]

\* C27: a payload that names its fields in camelCase and the payload that
\* gives the same values under the snake_case names map to the same Shipment;
\* of a field given under both names the camelCase value, read first, is kept.
C27_NamingInvariance ==
  Mapped =>
    /\ CamelOnly(inv.arg) => MapToShipment(InSnakeCase(inv.arg), now) = result.value
    /\ (inv.arg.createdAt > 0 /\ inv.arg.created_at > 0) =>
         result.value.created_at = inv.arg.createdAt
    /\ (inv.arg.discardedAt > 0 /\ inv.arg.discarded_at > 0) =>
         result.value.discarded_at = inv.arg.discardedAt


ArrivingKey(days) == CreateCacheKey("list:arriving", days)
ArrivingListKey(days, t) == CreateCacheKey("list:shipments", ArrivingOptions(days, t))
Stored(key) == ~cacheDisabled /\ ~storeDisabled /\ key \in DOMAIN cache

\* what the one query of getArrivingSoon(days) looks like and what is returned
ArrivingQueried(days) ==
  /\ inv'.nGet = 1
  /\ inv'.query.status = "EN_ROUTE"
  /\ inv'.query.eta_from = now \div MsPerDay
  /\ inv'.query.eta_to = (now \div MsPerDay) + days
  /\ result'.kind = "return" =>
       /\ \E x \in FilteredExchanges("EN_ROUTE") :
            /\ x.status = inv'.last.status
            /\ result'.value = MapAll(x.body, now)
       /\ (~cacheDisabled /\ ~storeDisabled) =>
            cache'[ArrivingListKey(days, now)].data.shipments = result'.value

C29_NoShipmentTwice ==
  (Returned /\ inv.op = "getActiveShipments") =>
    \A i, j \in 1..Len(result.value) :
      i # j => result.value[i].id # result.value[j].id


AfterInvalidate(id) == pc = "done" /\ inv.op = "invalidateShipment" /\ inv.ref = id
NextIs(op, id) == Invoked(op) /\ inv'.ref = id
ResolvesTo(id) ==
  /\ Invoked("trackBy")
  /\ result'.kind = "return"
  /\ result'.value # NullData
  /\ result'.value.id = id

\* C30: after invalidateShipment(id) has returned, the next getShipmentById(id),
\* getSharingLink(id), getVesselPosition(id) and trackBy lookup resolving to
\* that shipment each issue a remote call, none returns data cached before the
\* invalidation.
C30_RefetchAfterInvalidate ==
  [][ \A id \in Ids :
        AfterInvalidate(id) =>
          /\ NextIs("getShipmentById", id) => inv'.nGet = 1
          /\ NextIs("getSharingLink", id) => inv'.nGet = 1
          /\ NextIs("getVesselPosition", id) => inv'.nGet = 1
          /\ ResolvesTo(id) => inv'.nGet = 1 ]_vars


Backoff(k) == BaseDelay * (2 ^ k)
ExplicitRetryAfter(e) == e.name = "RateLimitError" /\ e.retryAfter >= 0

\* C31: the delay before retry k+1 lies in [baseDelay * 2^k, baseDelay * 2^k +
\* 500 ms], except after a 429 carrying a retry-after duration d (0 included):
\* then the delay is exactly d seconds.
C31_RetryDelay ==
  Applied("retryDelay") =>
    IF ExplicitRetryAfter(inv.lastError)
    THEN result.value = inv.lastError.retryAfter * 1000
    ELSE /\ result.value >= Backoff(inv.attempt)
         /\ result.value <= Backoff(inv.attempt) + 500


OnlyProc(p) == \A q \in Procs \ {p} : inv[q].handled = 0 /\ inv[q].at = "idle"
AllWithinWindow == now < StartTime + RateWindow
NeverRefused ==
  \A p \in Procs :
    (inv[p].at = "idle" /\ opsDone + InHand < MaxResponses) =>
      \A h \in HeaderChoices(429) : ENABLED LoadRateLimitData(p, h)

\* C32: the record is updated by an unlocked read-modify-write. With two
\* processes the call log never holds more entries than responses were handled
\* and can hold fewer (a lost update); while a single process has handled all
\* responses, N responses within 60 seconds leave exactly N entries; and a
\* call is never blocked or refused because of the record.
C32_UnlockedReadModifyWrite ==
  /\ Len(rateLimit.localCalls) <= opsDone
  /\ opsDone > 0 => Len(rateLimit.localCalls) >= 1
  /\ \A p \in Procs :
       (OnlyProc(p) /\ AllWithinWindow) => Len(rateLimit.localCalls) = opsDone
  /\ NeverRefused

\* two processes have handled one response each within 60 seconds and the
\* call log holds a single entry
C32_Witness ==
  /\ \A p \in Procs : inv[p].handled = 1 /\ inv[p].at = "idle"
  /\ AllWithinWindow
  /\ Len(rateLimit.localCalls) = 1


ShipmentKey(id) == CreateCacheKey("shipment:id", id)
\* a step of the cache-invalidate command for id: no switch is turned and no
\* other operation is counted
Invalidated(id) ==
  /\ inv'.op = "invalidateShipment"
  /\ inv'.ref = id
  /\ UNCHANGED <<cacheDisabled, storeDisabled, opsDone>>

\* C33: invalidateShipment(id) removes both the shipment:id entry and the
\* sharing-link entry of id, reports true exactly when at least one of them
\* existed, and leaves every other cache entry as it was.
C33_InvalidatesBoth ==
  [][ \A id \in InvalidateIds :
        Invalidated(id) =>
          /\ ShipmentKey(id) \notin DOMAIN cache'
          /\ LinkKey(id) \notin DOMAIN cache'
          /\ result'.value.success =
               (ShipmentKey(id) \in DOMAIN cache \/ LinkKey(id) \in DOMAIN cache)
          /\ DOMAIN cache' = DOMAIN cache \ {ShipmentKey(id), LinkKey(id)}
          /\ \A key \in DOMAIN cache' : cache'[key] = cache[key] ]_vars

\* an invalidation of shipment 1 has removed an entry and left the position
\* entry of shipment 1 in the cache
C33_Witness ==
  /\ AfterInvalidate("1")
  /\ result.value.success
  /\ DOMAIN cache = {CreateCacheKey("position", "1")}


\* a POST of the running createShipment has been answered 200 or 201
CreateAnswered ==
  /\ InCreate
  /\ \/ inv.last.method = "POST" /\ inv.last.status \in {200, 201}
     \/ inv.shipment # NullData
SameInvocation == opsDone' = opsDone

\* C34: within one createShipment invocation no POST follows a POST answered
\* 200/201: whatever becomes of the reference PATCH, the invocation neither
\* sleeps for a retry nor posts again, and it ends by returning.
C34_NoPostAfterCreated ==
  [][ (CreateAnswered /\ SameInvocation) =>
        /\ inv'.nPost = inv.nPost
        /\ pc' \notin {"post", "sleep", "get"}
        /\ pc' = "done" => result'.kind = "return" ]_vars

\* a createShipment whose single POST was answered 201 has returned after a
\* PATCH that got no response
C34_Witness ==
  /\ InCreate /\ Returned
  /\ inv.nPost = 1 /\ inv.nPatch = 1
  /\ inv.shipment # NullData
  /\ inv.last.method = "PATCH" /\ inv.last.status = -1


\* a POST of the running invocation has created a tracking entry upstream
EntryCreated ==
  \/ inv.lostCreate
  \/ inv.last.method = "POST" /\ inv.last.status \in {200, 201}
  \/ inv.shipment # NullData

\* C35: when createShipment returns, creditUsed is true if and only if a POST
\* of that invocation created a tracking entry upstream, lost responses
\* followed by a retry included.
C35_CreditUsedIffEntryCreated ==
  (InCreate /\ Returned) => (result.value.creditUsed <=> EntryCreated)


ClockReadings == {StartTime + k * ClockStep : k \in 0..MaxTicks}
StatusCall == Invoked("getRateLimitStatus")

\* C36: a remaining value that getRateLimitStatus reports from the server was
\* received from the server no longer than 60 seconds ago, also when later
\* responses carried no rate-limit headers.
C36_ServerRemainingIsRecent ==
  [][ StatusCall =>
        \A t \in ClockReadings :
          (t <= now /\ result'.value.remaining = ServerRemainingAt(t)) =>
            now - t <= RateWindow ]_vars

\* C37: the localCallCount that getRateLimitStatus reports is the number of
\* calls made no longer than 60 seconds before the status call, and the estimated
\* remaining is the limit less that number, also when no response was recorded
\* since older calls were logged.
C37_LocalCountIsRecent ==
  [][ StatusCall =>
        LET recent == SelectSeq(rateLimit.localCalls,
                                LAMBDA t : t >= now - RateWindow)
        IN /\ result'.value.localCallCount = Len(recent)
           /\ ~HasRecentServerData(rateLimit, now) =>
                result'.value.remaining = DefaultLimit - Len(recent) ]_vars


\* every shipment of the returned listing was fetched at most minutes ago
FetchedWithin(minutes) ==
  \A i \in 1..Len(result'.value) :
    now - result'.value[i].created_at <= minutes * MsPerMinute

\* C38: a value returned by getActiveShipments is built only from listings
\* fetched at most 15 minutes before the return, and a value returned by
\* getArrivingSoon only from a listing fetched at most 30 minutes before,
\* whatever listShipments calls were cached under their own keys in between.
C38_ListingsAreFresh ==
  [][ /\ (Invoked("getActiveShipments") /\ result'.kind = "return")
           => FetchedWithin(TTL_FIFTEEN_MINUTES)
      /\ (Invoked("getArrivingSoon") /\ result'.kind = "return")
           => FetchedWithin(TTL_THIRTY_MINUTES) ]_vars


Running == InCreate /\ pc \in {"post", "patch", "get", "sleep"}
Ended == InCreate /\ pc = "done" /\ result.kind \in {"return", "throw"}

\* C39: every createShipment invocation ends, by returning or raising, and
\* has issued at most maxRetries + 1 = 4 POST requests when it does, whatever
\* the responses, as long as every call is answered or times out.
C39_CreateTerminates ==
  /\ [](InCreate => inv.nPost <= MaxRetries + 1)
  /\ Running ~> Ended

\* a createShipment has ended by raising after its fourth POST
C39_Witness ==
  /\ Ended
  /\ result.kind = "throw"
  /\ inv.nPost = MaxRetries + 1
  /\ inv.last.method = "POST"

====
